---- MODULE Spec2Model ----
(***************************************************************************)
(* Model of devenv's configuration resolution and container-specification  *)
(* generation pipeline (src/src/devenv/utils/{config,modules,devcontainer, *)
(* hooks,docker}.py) and of the init, create, switch and rm commands of    *)
(* src/src/devenv/cli.py, the latter also step by step for processes that  *)
(* run side by side.                                                       *)
(*                                                                         *)
(* Representation.  A Python dict is a function whose domain is the set of *)
(* its keys; a Python list is a sequence; None is the marker NoneVal.      *)
(* Strings whose characters matter to the code (project names, port        *)
(* entries) are sequences of one-character strings; shell command texts    *)
(* are sequences of text pieces, so that joining with " && " is visible;   *)
(* every other string is an atom.                                          *)
(***************************************************************************)
EXTENDS Integers, Sequences, FiniteSets, Bags, TLC

VARIABLES
    pc,                 \* position of the caller in the operation under study
    project_path,       \* merge_configs argument: basename of the project directory
    project_config,     \* the project config object (dict or None)
    user_config,        \* the user config object (dict or None)
    merged,             \* merge_configs' return value / validate_config's argument
    validated,          \* outcome of validate_config
    forwarded_ports,    \* extract_ports_from_config return value
    module_names,       \* the module list handed to validate/apply
    validate_outcome,   \* outcome of validate_modules
    devcontainer_config,\* the caller's specification object handed to apply
    apply_outcome,      \* outcome of apply_modules_to_devcontainer
    hook_name,          \* the lifecycle event whose hooks are looked up
    hook_files,         \* the two candidate hook files as the file system has them
    hook_scripts,       \* find_hook_scripts return value
    hook_command,       \* generate_hook_command return value
    branch,             \* the branch argument of the generator
    editor,             \* the editor argument of the generator
    clock,              \* the instant datetime.utcnow() returns
    docker_labels,      \* generate_docker_labels return value
    generated,          \* outcome of generate_devcontainer_json
    config_file,        \* .devenv/config.yml of the working directory
    containers,         \* the bag of containers the Docker daemon holds
    outcome,            \* what the last CLI command did and how it exited
    trace,              \* the prompts and Docker calls of the last CLI command, in order
    procs,              \* the create processes running side by side
    documents,          \* the specification documents of successive pipeline runs
    catalog,            \* the BUILTIN_MODULES object of the process
    module_returned     \* the last return value of get_module / get_available_modules

hookVars == <<hook_name, hook_files, hook_scripts, hook_command>>

generatorVars == <<branch, editor, clock, docker_labels, generated>>

processVars == <<trace, procs, documents, catalog, module_returned>>

cliVars == <<config_file, containers, outcome, processVars>>

vars == <<pc, project_path, project_config, user_config, merged, validated,
          forwarded_ports, module_names, validate_outcome,
          devcontainer_config, apply_outcome, hookVars, generatorVars, cliVars>>

---------------------------------------------------------------------------
(* Bounds of the model *)

MaxPlugins == 2
MaxNameLen == 2
MaxPorts == 3
MaxModules == 3
MaxContainers == 2

---------------------------------------------------------------------------
(* Python values *)

NoneVal == [None |-> TRUE]

EmptyDict == [k \in {} |-> TRUE]

\* A value a variable holds while the operation that sets it has not run.
Idle == [Idle |-> TRUE]

Get(d, k, default) == IF k \in DOMAIN d THEN d[k] ELSE default

Put(d, k, v) == [x \in DOMAIN d \cup {k} |-> IF x = k THEN v ELSE d[x]]

Update(d, e) ==
    [x \in DOMAIN d \cup DOMAIN e |-> IF x \in DOMAIN e THEN e[x] ELSE d[x]]

Truthy(d) == d # NoneVal /\ DOMAIN d # {}

\* dict.get(k) as a sequence of zero (None) or one values.
Field(d, k) == IF k \in DOMAIN d THEN <<d[k]>> ELSE <<>>

Range(s) == {s[i] : i \in 1..Len(s)}

SeqsUpTo(S, n) == UNION {[1..k -> S] : k \in 0..n}

\* All orderings of a finite set, as duplicate-free sequences.
Orderings(S) ==
    {s \in [1..Cardinality(S) -> S] : \A i, j \in 1..Cardinality(S) : s[i] = s[j] => i = j}

---------------------------------------------------------------------------
(* config.py *)

BaseImage == "mcr.microsoft.com/devcontainers/base:ubuntu-24.04"

\* `port_list` is the ports argument, with <<>> standing for both None and
\* the empty list, which `if ports:` does not tell apart.
generate_default_config(path, port_list) ==
    LET config == [name |-> path, image |-> BaseImage]
    IN  IF Len(port_list) > 0
        THEN Put(config, "ports", port_list)
        ELSE config

\* list(set(xs)): the elements of xs once each, in the iteration order of the
\* set, which the language leaves unspecified (string hashing is randomised
\* per process); `order` is the order this run happens to produce.
list_of_set(xs, order) == SelectSeq(order, LAMBDA x : x \in Range(xs))

\* The plugins mapping after the loop over user_plugins.items().
merge_plugins(project_plugins, user_plugins, order) ==
    [ide \in DOMAIN project_plugins \cup DOMAIN user_plugins |->
        IF ide \in DOMAIN user_plugins
        THEN IF ide \in DOMAIN project_plugins
             THEN list_of_set(project_plugins[ide] \o user_plugins[ide], order[ide])
             ELSE user_plugins[ide]
        ELSE project_plugins[ide]]

\* A merge that overlays the whole user config: merged.update(user_config).
merge_user_mutant(m, user, order) == Update(m, user)

\* Lines 150-169: the user layer applied to `m`, the defaults overlaid by the
\* project config.
merge_user(m, user, order) ==
    LET withPlugins ==
            IF "plugins" \in DOMAIN user /\ DOMAIN user["plugins"] # {}
            THEN Put(m, "plugins",
                     merge_plugins(Get(m, "plugins", EmptyDict), user["plugins"], order))
            ELSE m
        withHooks ==
            IF "hooks_dir" \in DOMAIN user
            THEN Put(withPlugins, "hooks_dir", user["hooks_dir"])
            ELSE withPlugins
    IN  IF "dotfiles_dir" \in DOMAIN user
        THEN Put(withHooks, "dotfiles_dir", user["dotfiles_dir"])
        ELSE withHooks

\* A merge that forgets the project overlay.
merge_project_mutant(path, project) == generate_default_config(path, <<>>)

\* Lines 143-148: defaults overlaid by the project config.
merge_project(path, project) ==
    LET defaults == generate_default_config(path, <<>>)
    IN  IF Truthy(project) THEN Update(defaults, project) ELSE defaults

merge_configs(project, user, path, order) ==
    IF Truthy(user)
    THEN merge_user(merge_project(path, project), user, order)
    ELSE merge_project(path, project)

\* merged["plugins"] is the very dict object project_config["plugins"]
\* (dict.update copies references), so the item assignments of lines 162 and
\* 164 also change the project config the caller holds.
project_after_merge(project, user, result) ==
    IF /\ Truthy(project) /\ "plugins" \in DOMAIN project
       /\ Truthy(user) /\ "plugins" \in DOMAIN user
       /\ DOMAIN user["plugins"] # {}
    THEN [project EXCEPT !["plugins"] = result["plugins"]]
    ELSE project

AsciiAlnum == {"a", "Z", "7"}

\* A character outside ASCII that Unicode classifies as a letter (U+00E9).
UnicodeAlnum == {"e_acute"}

OtherChars == {" ", "!"}

NameChars == AsciiAlnum \cup UnicodeAlnum \cup {"-", "_"} \cup OtherChars

\* str.replace(old, "") for a one-character `old`.
replace(s, old) == SelectSeq(s, LAMBDA c : c # old)

\* str.isalnum(): at least one character, and all of them alphanumeric in
\* Unicode's sense.
isalnum(s) == Len(s) > 0 /\ \A i \in 1..Len(s) : s[i] \in AsciiAlnum \cup UnicodeAlnum

\* `not config[field]`: the name is a sequence of characters, the image an atom.
field_missing_or_empty(config, field) ==
    \/ field \notin DOMAIN config
    \/ config[field] = (IF field = "name" THEN <<>> ELSE "")

name_check(name) == isalnum(replace(replace(name, "-"), "_"))

validate_config(config) ==
    IF field_missing_or_empty(config, "name")
    THEN [raised |-> "ValueError", field |-> "name"]
    ELSE IF field_missing_or_empty(config, "image")
    THEN [raised |-> "ValueError", field |-> "image"]
    ELSE IF ~name_check(config["name"])
    THEN [raised |-> "ValueError", field |-> "name characters"]
    ELSE [raised |-> "no", value |-> config]

---------------------------------------------------------------------------
(* devcontainer.py: port extraction *)

Digits == <<"0", "1", "2", "3", "4", "5", "6", "7", "8", "9">>

IsDigit(c) == \E d \in 1..10 : Digits[d] = c

DigitValue(c) == (CHOOSE d \in 1..10 : Digits[d] = c) - 1

\* str.strip(): leading and trailing blanks removed.
RECURSIVE strip(_)
strip(s) ==
    IF s = <<>> THEN s
    ELSE IF Head(s) = " " THEN strip(Tail(s))
    ELSE IF s[Len(s)] = " " THEN strip(SubSeq(s, 1, Len(s) - 1))
    ELSE s

\* The digits of an integer literal: digits, with single underscores allowed
\* between them.
literal_digits_ok(b) ==
    /\ Len(b) > 0
    /\ \A i \in 1..Len(b) : IsDigit(b[i]) \/ b[i] = "_"
    /\ IsDigit(b[1]) /\ IsDigit(b[Len(b)])
    /\ \A i \in 1..(Len(b) - 1) : ~(b[i] = "_" /\ b[i + 1] = "_")

unsigned(t) == IF t # <<>> /\ Head(t) \in {"+", "-"} THEN Tail(t) ELSE t

\* Whether int(s) returns rather than raising ValueError.
int_parses(s) == literal_digits_ok(unsigned(strip(s)))

RECURSIVE decimal(_)
decimal(ds) ==
    IF ds = <<>> THEN 0
    ELSE 10 * decimal(SubSeq(ds, 1, Len(ds) - 1)) + DigitValue(ds[Len(ds)])

\* int(s), for an s that parses.
int_value(s) ==
    LET t == strip(s)
        n == decimal(replace(unsigned(t), "_"))
    IN  IF Head(t) = "-" THEN 0 - n ELSE n

\* port_mapping.split(":")[0]: the text before the first colon.
RECURSIVE before_colon(_)
before_colon(s) ==
    IF s = <<>> \/ Head(s) = ":" THEN <<>>
    ELSE <<Head(s)>> \o before_colon(Tail(s))

\* The text handed to int(): the host side of a mapping, or the whole entry.
port_text(port_mapping) ==
    IF ":" \in Range(port_mapping) THEN before_colon(port_mapping) ELSE port_mapping

\* A loop that stops at the first entry that does not parse (break for
\* continue).
RECURSIVE extract_loop_mutant(_)
extract_loop_mutant(port_list) ==
    IF port_list = <<>> THEN <<>>
    ELSE IF int_parses(port_text(Head(port_list)))
         THEN <<int_value(port_text(Head(port_list)))>> \o extract_loop_mutant(Tail(port_list))
         ELSE <<>>

\* The loop of lines 31-45 over the entries still to be visited.
RECURSIVE extract_loop(_)
extract_loop(port_list) ==
    IF port_list = <<>> THEN <<>>
    ELSE LET text == port_text(Head(port_list))
         IN  IF int_parses(text)
             THEN <<int_value(text)>> \o extract_loop(Tail(port_list))
             ELSE extract_loop(Tail(port_list))

\* `arg` is the argument as Field gives it: <<>> for None, <<list>> for a list.
extract_ports_from_config(arg) ==
    IF arg = <<>> \/ arg[1] = <<>> THEN <<>> ELSE extract_loop(arg[1])

---------------------------------------------------------------------------
(* modules.py *)

ClaudeMount ==
    [source |-> "${localEnv:HOME}/.claude", target |-> "/home/vscode/.claude",
     type |-> "bind"]

DockerSockMount ==
    [source |-> "/var/run/docker.sock", target |-> "/var/run/docker-host.sock",
     type |-> "bind"]

DindFeature == "ghcr.io/devcontainers/features/docker-in-docker:2"

BUILTIN_MODULES ==
    ("claude-code" :>
        [description |-> "Integrates Claude Code for AI-assisted development",
         mounts |-> <<ClaudeMount>>,
         environment |-> [CLAUDE_CODE_ENABLED |-> "true"],
         post_create_commands |-> <<"npm install -g @anthropic/claude-code">>])
    @@
    ("docker-in-docker" :>
        [description |-> "Allows running Docker commands inside the container",
         features |-> (DindFeature :> [moby |-> TRUE, dockerDashComposeVersion |-> "v2"]),
         mounts |-> <<DockerSockMount>>])

\* sorted(list(available_modules)).
sorted_module_names == <<"claude-code", "docker-in-docker">>

get_module(name) ==
    IF name \notin DOMAIN BUILTIN_MODULES
    THEN [raised |-> "KeyError", unknown |-> <<name>>, available |-> sorted_module_names]
    ELSE [raised |-> "no", value |-> BUILTIN_MODULES[name]]

\* Only the first unknown name is reported.
invalid_modules_mutant(names) ==
    LET bad == SelectSeq(names, LAMBDA n : n \notin DOMAIN BUILTIN_MODULES)
    IN  IF bad = <<>> THEN bad ELSE <<bad[1]>>

\* Line 91: the names that are not in the catalog, in input order.
invalid_modules(names) == SelectSeq(names, LAMBDA n : n \notin DOMAIN BUILTIN_MODULES)

\* The ValueError carries the message's two lists: the unknown names and the
\* available ones, each joined with ", " in the text.
validate_modules(names) ==
    IF invalid_modules(names) # <<>>
    THEN [raised |-> "ValueError", unknown |-> invalid_modules(names),
          available |-> sorted_module_names]
    ELSE [raised |-> "no", value |-> names]

\* sep.join(strings) as a text: the strings with sep between them.
RECURSIVE join(_, _)
join(sep, strings) ==
    IF strings = <<>> THEN <<>>
    ELSE IF Len(strings) = 1 THEN <<strings[1]>>
    ELSE <<strings[1], sep>> \o join(sep, Tail(strings))

\* The module commands replace the command text already present.
merge_post_create_mutant(config, module_config) ==
    IF "post_create_commands" \in DOMAIN module_config
    THEN Put(config, "postCreateCommand", join(" && ", module_config["post_create_commands"]))
    ELSE config

\* Lines 163-171.
merge_post_create(config, module_config) ==
    IF "post_create_commands" \in DOMAIN module_config
    THEN LET current_command == Get(config, "postCreateCommand", <<>>)
             module_commands == join(" && ", module_config["post_create_commands"])
         IN  IF current_command # <<>>
             THEN Put(config, "postCreateCommand",
                      current_command \o <<" && ">> \o module_commands)
             ELSE Put(config, "postCreateCommand", module_commands)
    ELSE config

_merge_module_config(devcontainer, module_config) ==
    LET c1 == IF "run_args" \in DOMAIN module_config
              THEN Put(devcontainer, "runArgs",
                       Get(devcontainer, "runArgs", <<>>) \o module_config["run_args"])
              ELSE devcontainer
        c2 == IF "mounts" \in DOMAIN module_config
              THEN Put(c1, "mounts", Get(c1, "mounts", <<>>) \o module_config["mounts"])
              ELSE c1
        c3 == IF "environment" \in DOMAIN module_config
              THEN Put(c2, "remoteEnv",
                       Update(Get(c2, "remoteEnv", EmptyDict), module_config["environment"]))
              ELSE c2
        c4 == IF "features" \in DOMAIN module_config
              THEN Put(c3, "features",
                       Update(Get(c3, "features", EmptyDict), module_config["features"]))
              ELSE c3
    IN  merge_post_create(c4, module_config)

\* The loop of lines 121-123 over the names still to be applied.
RECURSIVE apply_loop(_, _)
apply_loop(devcontainer, names) ==
    IF names = <<>> THEN devcontainer
    ELSE apply_loop(_merge_module_config(devcontainer, get_module(Head(names)).value),
                    Tail(names))

\* Validation inside the loop: the modules before the first unknown name are
\* applied before the error is raised.
RECURSIVE lazy_loop(_, _)
lazy_loop(devcontainer, names) ==
    IF names = <<>> THEN [raised |-> "no", current |-> devcontainer]
    ELSE IF Head(names) \notin DOMAIN BUILTIN_MODULES
    THEN [raised |-> "ValueError", unknown |-> <<Head(names)>>,
          available |-> sorted_module_names, current |-> devcontainer]
    ELSE lazy_loop(_merge_module_config(devcontainer, BUILTIN_MODULES[Head(names)]),
                   Tail(names))

apply_modules_mutant(devcontainer, names) == lazy_loop(devcontainer, names)

\* The outcome of apply_modules_to_devcontainer, with `current`, the
\* specification as built when the function returns or raises.
apply_modules_to_devcontainer(devcontainer, names) ==
    IF names = <<>>
    THEN [raised |-> "no", current |-> devcontainer]
    ELSE IF validate_modules(names).raised # "no"
    THEN [raised |-> "ValueError", unknown |-> validate_modules(names).unknown,
          available |-> validate_modules(names).available, current |-> devcontainer]
    ELSE [raised |-> "no", current |-> apply_loop(devcontainer, names)]

\* config.get("remoteEnv", {}) and config.get("features", {}) return the
\* caller's own nested dicts when it has them, and update() changes them in
\* place: the caller's object sees the keys added under these two fields.
caller_after_apply(devcontainer, current) ==
    [k \in DOMAIN devcontainer |->
        IF k \in {"remoteEnv", "features"} THEN current[k] ELSE devcontainer[k]]

---------------------------------------------------------------------------
(* Inputs of the configuration resolver *)

Editors == {"vscode", "jetbrains"}

PluginIds == {"ms-python.python", "esbenp.prettier-vscode"}

PluginLists == SeqsUpTo(PluginIds, MaxPlugins)

\* The jetbrains lists considered beside every vscode list.
OtherPluginLists ==
    {<<>>, <<"ms-python.python">>, <<"esbenp.prettier-vscode", "ms-python.python">>}

\* A plugins mapping from an optional vscode list and an optional jetbrains
\* list, each given as a set holding at most one list.
PluginDict(vs, js) ==
    [ide \in {e \in Editors : (IF e = "vscode" THEN vs ELSE js) # {}} |->
        CHOOSE l \in (IF ide = "vscode" THEN vs ELSE js) : TRUE]

Optional(S) == {{}} \cup {{x} : x \in S}

PluginDicts ==
    {PluginDict(vs, js) : vs \in Optional(PluginLists), js \in Optional(OtherPluginLists)}

ValidName == <<"a", "-", "7">>

BadName == <<"a", " ">>

Port3000 == <<"3", "0", "0", "0", ":", "3", "0", "0", "0">>

Port5432 == <<"5", "4", "3", "2", ":", "5", "4", "3", "2">>

FullProject ==
    [name |-> ValidName, image |-> "node:20",
     ports |-> <<Port3000, Port5432>>,
     environment |-> [NODE_ENV |-> "development"],
     features |-> [git |-> [version |-> "latest"]],
     mounts |-> <<[source |-> "/data", target |-> "/data", type |-> "bind"]>>,
     post_create_command |-> <<"npm install">>]

\* The application fields of the project configs considered.
ProjectProfiles ==
    {EmptyDict,
     [image |-> "node:20"],
     [name |-> ValidName, image |-> "node:20"],
     [name |-> BadName, image |-> "node:20"],
     [name |-> ValidName, image |-> ""],
     [name |-> ValidName, image |-> "node:20", dotfiles_dir |-> "/repo/dotfiles"],
     FullProject}

ProjectConfigs ==
    {NoneVal} \cup ProjectProfiles
    \cup {Put(p, "plugins", d) : p \in ProjectProfiles, d \in PluginDicts \ {EmptyDict}}

\* Keys a user config should not carry; merge_configs takes any dict.
ForeignKeys ==
    [name |-> <<"Z">>, image |-> "evil:latest", ports |-> <<Port5432>>,
     environment |-> [NODE_ENV |-> "production"], features |-> [sshd |-> [version |-> "latest"]]]

UserProfiles ==
    {EmptyDict,
     [hooks_dir |-> "/home/u/.config/devenv/hooks"],
     [dotfiles_dir |-> "/home/u/.config/devenv/dotfiles"],
     Update(ForeignKeys, [hooks_dir |-> "/home/u/.config/devenv/hooks",
                          dotfiles_dir |-> "/home/u/.config/devenv/dotfiles"])}

UserConfigs ==
    {NoneVal} \cup UserProfiles
    \cup {Put(u, "plugins", d) : u \in UserProfiles, d \in PluginDicts}

ProjectPaths == {<<"a", "7">>, <<"a", "!">>}

SetOrders == [Editors -> Orderings(PluginIds)]

---------------------------------------------------------------------------
(* The resolver: load_and_merge_config *)

HooksIdle ==
    /\ hook_name = Idle
    /\ hook_files = Idle
    /\ hook_scripts = Idle
    /\ hook_command = Idle

GeneratorIdle ==
    /\ branch = Idle
    /\ editor = Idle
    /\ clock = Idle
    /\ docker_labels = Idle
    /\ generated = Idle

ProcessIdle ==
    /\ trace = Idle
    /\ procs = Idle
    /\ documents = Idle
    /\ catalog = Idle
    /\ module_returned = Idle

CliIdle ==
    /\ config_file = Idle
    /\ containers = Idle
    /\ outcome = Idle
    /\ ProcessIdle

IdleRest ==
    /\ HooksIdle
    /\ GeneratorIdle
    /\ CliIdle
    /\ forwarded_ports = Idle
    /\ module_names = Idle
    /\ validate_outcome = Idle
    /\ devcontainer_config = Idle
    /\ apply_outcome = Idle

\* State once load_project_config has returned.
Init ==
    /\ pc = "loaded"
    /\ project_path \in ProjectPaths
    /\ project_config \in ProjectConfigs
    /\ user_config = Idle
    /\ merged = Idle
    /\ validated = Idle
    /\ IdleRest

MergeConfigs(user, order) ==
    /\ pc = "loaded"
    /\ user_config' = user
    /\ merged' = merge_configs(project_config, user, project_path, order)
    /\ project_config' = project_after_merge(project_config, user, merged')
    /\ pc' = "merged"
    /\ UNCHANGED <<project_path, validated, forwarded_ports, module_names,
                   validate_outcome, devcontainer_config, apply_outcome>>
    /\ UNCHANGED <<hookVars, generatorVars, cliVars>>

ValidateConfig ==
    /\ pc = "merged"
    /\ validated' = validate_config(merged)
    /\ pc' = "validated"
    /\ UNCHANGED <<project_path, project_config, user_config, merged,
                   forwarded_ports, module_names, validate_outcome,
                   devcontainer_config, apply_outcome>>
    /\ UNCHANGED <<hookVars, generatorVars, cliVars>>

Next ==
    \/ \E user \in UserConfigs, order \in SetOrders : MergeConfigs(user, order)
    \/ ValidateConfig

Spec == Init /\ [][Next]_vars

---------------------------------------------------------------------------
(* validate_config on arbitrary configurations *)

Names == SeqsUpTo(NameChars, MaxNameLen)

ValidateInputs ==
    LET images == {[image |-> i] : i \in {"", "node:20"}} \cup {EmptyDict}
    IN  images \cup {Put(c, "name", n) : c \in images, n \in Names}

InitValidate ==
    /\ pc = "merged"
    /\ project_path = Idle
    /\ project_config = Idle
    /\ user_config = Idle
    /\ merged \in ValidateInputs
    /\ validated = Idle
    /\ IdleRest

NextValidate == ValidateConfig

SpecValidate == InitValidate /\ [][NextValidate]_vars

---------------------------------------------------------------------------
(* Properties of merge_configs *)

\* The step in which merge_configs runs: unprimed variables are its
\* arguments as passed, primed ones the state when it has returned.
MergeStep == pc = "loaded" /\ pc' = "merged"

AppFields == {"name", "image", "ports", "environment", "features"}

\* The field a project config alone gives over the defaults.
ProjectField(project, path, k) ==
    IF Truthy(project) /\ k \in DOMAIN project THEN <<project[k]>>
    ELSE IF k = "name" THEN <<path>>
    ELSE IF k = "image" THEN <<BaseImage>>
    ELSE <<>>

\* C1: whatever the user config carries, name, image, ports, environment and
\* features of the merged config are those of the project config over the
\* defaults.
C1_UserNeverSetsAppFields ==
    [][MergeStep =>
        \A k \in AppFields :
            Field(merged', k) = ProjectField(project_config, project_path, k)]_vars

C1_Witness ==
    /\ pc = "merged"
    /\ Truthy(user_config)
    /\ AppFields \subseteq DOMAIN user_config
    /\ Truthy(project_config)
    /\ "ports" \notin DOMAIN merged
    /\ merged["image"] # user_config["image"]

PluginList(config, ide) ==
    IF Truthy(config) /\ "plugins" \in DOMAIN config /\ ide \in DOMAIN config["plugins"]
    THEN config["plugins"][ide]
    ELSE <<>>

HasPluginList(config, ide) ==
    Truthy(config) /\ "plugins" \in DOMAIN config /\ ide \in DOMAIN config["plugins"]

NoDuplicates(s) == \A i, j \in 1..Len(s) : s[i] = s[j] => i = j

\* C2: for every editor kind, the merged plugin list holds exactly the ids of
\* the project list and the user list, each id once.
C2_PluginUnionDeduplicated ==
    [][MergeStep =>
        \A ide \in Editors :
            HasPluginList(project_config, ide) \/ HasPluginList(user_config', ide) =>
                /\ HasPluginList(merged', ide)
                /\ Range(PluginList(merged', ide)) =
                       Range(PluginList(project_config, ide))
                           \cup Range(PluginList(user_config', ide))
                /\ NoDuplicates(PluginList(merged', ide))]_vars

\* The entries of s, each kept at its first occurrence only.
FirstSeen(s) == SelectSeq([i \in 1..Len(s) |-> <<i, s[i]>>],
                          LAMBDA p : \A j \in 1..(p[1] - 1) : s[j] # p[2])

Seconds(ps) == [i \in 1..Len(ps) |-> ps[i][2]]

\* Project entries in project order, then the new user entries in user order.
StableUnion(proj, user) ==
    proj \o Seconds(FirstSeen(SelectSeq(user, LAMBDA x : x \notin Range(proj))))

\* C3: the merged plugin list of an editor kind is the project entries in
\* project order followed by the user entries not already present, in user
\* order.
C3_PluginOrderStable ==
    [][MergeStep =>
        \A ide \in Editors :
            HasPluginList(project_config, ide) /\ HasPluginList(user_config', ide) =>
                PluginList(merged', ide) =
                    StableUnion(PluginList(project_config, ide),
                                PluginList(user_config', ide))]_vars

ProjectFields ==
    {"name", "image", "ports", "environment", "features", "mounts", "plugins",
     "post_create_command", "post_start_command"}

\* A project config in the sense of the data model: absent, or a mapping
\* with ProjectConfig fields only.
ValidProject(project) == project = NoneVal \/ DOMAIN project \subseteq ProjectFields

\* C4: with no user config, the merged config is the defaults (directory
\* name, base image, no ports) overlaid by every field of a valid project
\* config, and has neither hooks_dir nor dotfiles_dir.
C4_ProjectOnlyMerge ==
    [][MergeStep /\ user_config' = NoneVal /\ ValidProject(project_config) =>
        /\ DOMAIN merged' =
              {"name", "image"}
                  \cup (IF project_config = NoneVal THEN {} ELSE DOMAIN project_config)
        /\ \A k \in DOMAIN merged' :
              Field(merged', k) = ProjectField(project_config, project_path, k)
        /\ "hooks_dir" \notin DOMAIN merged'
        /\ "dotfiles_dir" \notin DOMAIN merged']_vars

C4_Witness ==
    /\ pc = "merged"
    /\ user_config = NoneVal
    /\ project_config # NoneVal
    /\ {"ports", "plugins", "environment"} \subseteq DOMAIN project_config
    /\ merged["name"] = ValidName
    /\ merged["ports"] = <<Port3000, Port5432>>

---------------------------------------------------------------------------
(* Properties of validate_config *)

\* The identifier pattern ^[A-Za-z0-9_-]+$.
MatchesIdentifierPattern(s) ==
    Len(s) > 0 /\ \A i \in 1..Len(s) : s[i] \in AsciiAlnum \cup {"-", "_"}

\* C5: a configuration validate_config returns has a non-empty name matching
\* ^[A-Za-z0-9_-]+$ and a non-empty image; any other configuration is
\* rejected with ValueError.
C5_ValidatedIsWellFormed ==
    pc = "validated" =>
        \/ validated.raised = "ValueError"
        \/ /\ validated = [raised |-> "no", value |-> merged]
           /\ "name" \in DOMAIN merged /\ "image" \in DOMAIN merged
           /\ merged["image"] # ""
           /\ MatchesIdentifierPattern(merged["name"])

\* C6: validate_config returns unchanged every configuration with a non-empty
\* image and a name matching ^[A-Za-z0-9_-]+$.
C6_AcceptsEveryIdentifier ==
    pc = "validated" /\ "name" \in DOMAIN merged /\ "image" \in DOMAIN merged
        /\ merged["image"] # "" /\ MatchesIdentifierPattern(merged["name"])
    => validated = [raised |-> "no", value |-> merged]

---------------------------------------------------------------------------
(* extract_ports_from_config on arbitrary port lists *)

PortEntries ==
    {Port3000,
     <<"5", "4", "3", "2">>,
     <<"8", "0", "8", "0", ":", "8", "0">>,
     <<"a", "b", "c">>,
     <<"a", ":", "8", "0">>,
     <<":", "8", "0">>,
     <<"8", "0", ":", "a">>,
     <<"-", "1">>,
     <<" ", "7">>,
     <<"3", "_", "0">>,
     <<>>}

PortLists == SeqsUpTo(PortEntries, MaxPorts)

InitPorts ==
    /\ pc = "validated"
    /\ project_path = Idle
    /\ project_config = Idle
    /\ user_config = Idle
    /\ merged \in {[image |-> BaseImage]}
                   \cup {[image |-> BaseImage, ports |-> l] : l \in PortLists}
    /\ validated = Idle
    /\ IdleRest

\* generate_devcontainer_json, line 99.
ExtractPorts ==
    /\ pc = "validated"
    /\ forwarded_ports' = extract_ports_from_config(Field(merged, "ports"))
    /\ pc' = "ports"
    /\ UNCHANGED <<project_path, project_config, user_config, merged, validated,
                   module_names, validate_outcome, devcontainer_config,
                   apply_outcome>>
    /\ UNCHANGED <<hookVars, generatorVars, cliVars>>

NextPorts == ExtractPorts

SpecPorts == InitPorts /\ [][NextPorts]_vars

---------------------------------------------------------------------------
(* Properties of extract_ports_from_config *)

\* The part of an entry that names the port to forward: the host side of
\* "host:container", the whole of a bare entry.
HostSide(e) ==
    IF \E i \in 1..Len(e) : e[i] = ":"
    THEN SubSeq(e, 1, (CHOOSE i \in 1..Len(e) :
                          e[i] = ":" /\ \A j \in 1..(i - 1) : e[j] # ":") - 1)
    ELSE e

\* C7: the forwarded ports are the integers of the entries that parse, at
\* the rank the entry has among the parsing entries; nothing else is dropped,
\* added or moved.
C7_PortsKeptInOrder ==
    pc = "ports" =>
        LET l == IF "ports" \in DOMAIN merged THEN merged["ports"] ELSE <<>>
            good == {i \in 1..Len(l) : int_parses(HostSide(l[i]))}
            rank(i) == Cardinality({j \in good : j <= i})
        IN  /\ Len(forwarded_ports) = Cardinality(good)
            /\ \A i \in good : forwarded_ports[rank(i)] = int_value(HostSide(l[i]))

C7_Witness ==
    /\ pc = "ports"
    /\ "ports" \in DOMAIN merged
    /\ merged["ports"] = <<<<"a", "b", "c">>, <<"8", "0", "8", "0", ":", "8", "0">>,
                            <<"5", "4", "3", "2">>>>
    /\ forwarded_ports = <<8080, 5432>>

---------------------------------------------------------------------------
(* validate_modules and apply_modules_to_devcontainer on arbitrary inputs *)

ModuleNames == {"claude-code", "docker-in-docker", "bogus", "another-invalid"}

ModuleLists == SeqsUpTo(ModuleNames, MaxModules)

ExistingMount == [source |-> "/existing", target |-> "/existing", type |-> "bind"]

BaseSpecs ==
    {[name |-> "test", image |-> "ubuntu:22.04"],
     [name |-> "test", image |-> "ubuntu:22.04",
      mounts |-> <<ExistingMount>>,
      remoteEnv |-> [EXISTING_VAR |-> "value"],
      postCreateCommand |-> <<"echo 'existing command'">>],
     [name |-> "test", image |-> "ubuntu:22.04",
      runArgs |-> <<"--label=com.devenv.managed=true">>,
      mounts |-> <<ExistingMount>>,
      remoteEnv |-> [EXISTING_VAR |-> "value", CLAUDE_CODE_ENABLED |-> "false"],
      features |-> (DindFeature :> [moby |-> FALSE, dockerDashComposeVersion |-> "v1"]),
      postCreateCommand |-> <<>>]}

InitModules ==
    /\ pc = "modules"
    /\ project_path = Idle
    /\ project_config = Idle
    /\ user_config = Idle
    /\ merged = Idle
    /\ validated = Idle
    /\ forwarded_ports = Idle
    /\ module_names \in ModuleLists
    /\ validate_outcome = Idle
    /\ devcontainer_config \in BaseSpecs
    /\ apply_outcome = Idle
    /\ HooksIdle
    /\ GeneratorIdle
    /\ CliIdle

ValidateModules ==
    /\ pc = "modules"
    /\ validate_outcome' = validate_modules(module_names)
    /\ pc' = "modules_validated"
    /\ UNCHANGED <<project_path, project_config, user_config, merged, validated,
                   forwarded_ports, module_names, devcontainer_config,
                   apply_outcome>>
    /\ UNCHANGED <<hookVars, generatorVars, cliVars>>

ApplyModulesToDevcontainer ==
    /\ pc \in {"modules", "modules_validated"}
    /\ apply_outcome' = apply_modules_to_devcontainer(devcontainer_config, module_names)
    /\ devcontainer_config' =
           caller_after_apply(devcontainer_config, apply_outcome'.current)
    /\ pc' = "modules_applied"
    /\ UNCHANGED <<project_path, project_config, user_config, merged, validated,
                   forwarded_ports, module_names, validate_outcome>>
    /\ UNCHANGED <<hookVars, generatorVars, cliVars>>

NextModules == ValidateModules \/ ApplyModulesToDevcontainer

SpecModules == InitModules /\ [][NextModules]_vars

---------------------------------------------------------------------------
(* Properties of validate_modules and apply_modules_to_devcontainer *)

CatalogNames == DOMAIN BUILTIN_MODULES

\* The positions of the input that hold a name outside the catalog.
UnknownAt(names) == {i \in 1..Len(names) : names[i] \notin CatalogNames}

\* C8: validate_modules returns its input when every name is in the catalog;
\* otherwise its error names every unknown entry of the input, in input
\* order, and the available module names.
C8_ValidateNamesEveryUnknown ==
    validate_outcome # Idle =>
        LET bad == UnknownAt(module_names)
            rank(i) == Cardinality({j \in bad : j <= i})
        IN  IF bad = {}
            THEN validate_outcome = [raised |-> "no", value |-> module_names]
            ELSE /\ validate_outcome.raised = "ValueError"
                 /\ Len(validate_outcome.unknown) = Cardinality(bad)
                 /\ \A i \in bad : validate_outcome.unknown[rank(i)] = module_names[i]
                 /\ Range(validate_outcome.available) = CatalogNames

C8_Witness ==
    /\ pc = "modules_validated"
    /\ module_names = <<"bogus", "claude-code", "another-invalid">>
    /\ validate_outcome.raised = "ValueError"
    /\ validate_outcome.unknown = <<"bogus", "another-invalid">>

\* The step in which apply_modules_to_devcontainer runs: unprimed variables
\* are its arguments as passed, primed ones the state when it has returned
\* or raised.
ApplyStep == pc \in {"modules", "modules_validated"} /\ pc' = "modules_applied"

\* C9: with an unknown name in the list, apply_modules_to_devcontainer raises
\* and no module, not even a valid one before the unknown name, has been
\* applied to the specification.
C9_UnknownModuleAbortsBeforeMutation ==
    [][ApplyStep /\ UnknownAt(module_names) # {} =>
        /\ apply_outcome'.raised = "ValueError"
        /\ apply_outcome'.current = devcontainer_config
        /\ devcontainer_config' = devcontainer_config]_vars

C9_Witness ==
    /\ pc = "modules_applied"
    /\ module_names = <<"claude-code", "docker-in-docker", "bogus">>
    /\ apply_outcome.raised = "ValueError"
    /\ "features" \in DOMAIN devcontainer_config
    /\ devcontainer_config["remoteEnv"]["CLAUDE_CODE_ENABLED"] = "false"

\* The lists the modules of `names` give for `field`, concatenated in the
\* order of `names`.
RECURSIVE ModuleItems(_, _)
ModuleItems(names, field) ==
    IF names = <<>> THEN <<>>
    ELSE Get(BUILTIN_MODULES[Head(names)], field, <<>>) \o ModuleItems(Tail(names), field)

\* The commands with " && " between them.
AndJoined(cmds) ==
    [i \in 1..(2 * Len(cmds) - 1) |-> IF i % 2 = 1 THEN cmds[(i + 1) \div 2] ELSE " && "]

ExpectedPostCreate(previous, cmds) ==
    IF cmds = <<>> THEN previous
    ELSE IF previous = <<>> THEN AndJoined(cmds)
    ELSE previous \o <<" && ">> \o AndJoined(cmds)

\* Every key of the mapping `field` of `before` is in `after`, with its value
\* unless a module of `names` defines the key under `moduleField`.
KeysKept(before, after, field, names, moduleField) ==
    \A k \in DOMAIN Get(before, field, EmptyDict) :
        /\ field \in DOMAIN after
        /\ k \in DOMAIN after[field]
        /\ \/ after[field][k] = before[field][k]
           \/ \E i \in 1..Len(names) :
                 k \in DOMAIN Get(BUILTIN_MODULES[names[i]], moduleField, EmptyDict)

\* C10: applying valid modules only adds, in caller order: runArgs and mounts
\* keep the previous list as a prefix, followed by the modules' entries;
\* remoteEnv and features keep every previous key; postCreateCommand keeps
\* the previous text, followed by the module commands joined with " && ".
C10_ApplyIsAdditiveInOrder ==
    [][ApplyStep /\ UnknownAt(module_names) = {} =>
        LET before == devcontainer_config
            after == apply_outcome'.current
        IN  /\ apply_outcome'.raised = "no"
            /\ Get(after, "runArgs", <<>>) =
                   Get(before, "runArgs", <<>>) \o ModuleItems(module_names, "run_args")
            /\ Get(after, "mounts", <<>>) =
                   Get(before, "mounts", <<>>) \o ModuleItems(module_names, "mounts")
            /\ KeysKept(before, after, "remoteEnv", module_names, "environment")
            /\ KeysKept(before, after, "features", module_names, "features")
            /\ Get(after, "postCreateCommand", <<>>) =
                   ExpectedPostCreate(Get(before, "postCreateCommand", <<>>),
                                      ModuleItems(module_names, "post_create_commands"))
            /\ \A k \in {"name", "image"} : after[k] = before[k]]_vars

C10_Witness ==
    /\ pc = "modules_applied"
    /\ module_names = <<"docker-in-docker", "claude-code">>
    /\ apply_outcome.raised = "no"
    /\ apply_outcome.current["mounts"] = <<ExistingMount, DockerSockMount, ClaudeMount>>
    /\ apply_outcome.current["remoteEnv"] =
           [EXISTING_VAR |-> "value", CLAUDE_CODE_ENABLED |-> "true"]
    /\ apply_outcome.current["postCreateCommand"] =
           <<"echo 'existing command'", " && ", "npm install -g @anthropic/claude-code">>

---------------------------------------------------------------------------
(* hooks.py *)

\* stat.S_IEXEC, the owner-execute permission bit (0o100).
S_IEXEC == 64

HomeDir == "/home/dev"

ProjectDir == "/work/repo"

HookNames == {"post_create", "post_start"}

\* os.path.join(home_dir, ".config", "devenv", "hooks", hook_name), line 35.
user_hook_path(home_dir, name) == <<home_dir, "/.config/devenv/hooks/", name>>

\* os.path.join(project_path, ".devenv", "hooks", hook_name), line 40.
project_hook_path(path, name) == <<path, "/.devenv/hooks/", name>>

\* What the file system holds at a path: nothing, a directory or a regular
\* file, with the permission bits of st_mode.
Missing == [kind |-> "missing", mode |-> 0]

FileStates ==
    {Missing,
     [kind |-> "dir", mode |-> 493],     \* drwxr-xr-x
     [kind |-> "file", mode |-> 420],    \* -rw-r--r--
     [kind |-> "file", mode |-> 493],    \* -rwxr-xr-x
     [kind |-> "file", mode |-> 428],    \* -rw-r-xr--
     [kind |-> "file", mode |-> 64]}     \* ---x------

isfile(files, path) == files[path].kind = "file"

\* Any of the three execute bits counts.
is_executable_mutant(files, path) ==
    /\ files[path].kind # "missing"
    /\ \E bit \in {1, 8, 64} : (files[path].mode \div bit) % 2 = 1

\* os.stat raises on a missing path and the except clause answers False.
is_executable(files, path) ==
    IF files[path].kind = "missing"
    THEN FALSE
    ELSE (files[path].mode \div S_IEXEC) % 2 = 1

find_hook_scripts(name, path, home_dir, files) ==
    LET user_hook == user_hook_path(home_dir, name)
        project_hook == project_hook_path(path, name)
        hooks1 == IF isfile(files, user_hook) /\ is_executable(files, user_hook)
                  THEN <<<<"user", user_hook>>>>
                  ELSE <<>>
    IN  IF isfile(files, project_hook) /\ is_executable(files, project_hook)
        THEN Append(hooks1, <<"project", project_hook>>)
        ELSE hooks1

\* The stripped f-string of lines 90-93: the echo line, a line break with
\* the indentation of the source text, then the line that runs the script.
hook_segment(source, name, script_path) ==
    <<"echo \"Executing ", source, " ", name, " hook...\"",
      "\n        ",
      "source ~/.bashrc", " && ">> \o script_path

RECURSIVE join_texts(_, _)
\* sep.join(texts) where each text is itself a sequence of pieces.
join_texts(sep, texts) ==
    IF texts = <<>> THEN <<>>
    ELSE IF Len(texts) = 1 THEN texts[1]
    ELSE texts[1] \o <<sep>> \o join_texts(sep, Tail(texts))

\* None is the empty option, a command text is the option holding it.
generate_hook_command(name, path, home_dir, files) ==
    LET found == find_hook_scripts(name, path, home_dir, files)
    IN  IF found = <<>>
        THEN <<>>
        ELSE <<join_texts(" && ",
                  [i \in 1..Len(found) |->
                      hook_segment(found[i][1], name, found[i][2])])>>

---------------------------------------------------------------------------
(* Hook discovery on every state of the candidate files *)

CandidatePaths ==
    {user_hook_path(HomeDir, n) : n \in HookNames}
        \cup {project_hook_path(ProjectDir, n) : n \in HookNames}

InitHooks ==
    /\ pc = "hooks"
    /\ project_path = Idle
    /\ project_config = Idle
    /\ user_config = Idle
    /\ merged = Idle
    /\ validated = Idle
    /\ forwarded_ports = Idle
    /\ module_names = Idle
    /\ validate_outcome = Idle
    /\ devcontainer_config = Idle
    /\ apply_outcome = Idle
    /\ hook_name \in HookNames
    /\ hook_files \in [CandidatePaths -> FileStates]
    /\ hook_scripts = Idle
    /\ hook_command = Idle
    /\ GeneratorIdle
    /\ CliIdle

FindHookScripts ==
    /\ pc = "hooks"
    /\ hook_scripts' = find_hook_scripts(hook_name, ProjectDir, HomeDir, hook_files)
    /\ pc' = "hooks_found"
    /\ UNCHANGED <<project_path, project_config, user_config, merged, validated,
                   forwarded_ports, module_names, validate_outcome,
                   devcontainer_config, apply_outcome,
                   hook_name, hook_files, hook_command, generatorVars, cliVars>>

\* generate_hook_command runs the discovery itself (line 79).
GenerateHookCommand ==
    /\ pc \in {"hooks", "hooks_found"}
    /\ hook_scripts' = find_hook_scripts(hook_name, ProjectDir, HomeDir, hook_files)
    /\ hook_command' = generate_hook_command(hook_name, ProjectDir, HomeDir, hook_files)
    /\ pc' = "hook_command"
    /\ UNCHANGED <<project_path, project_config, user_config, merged, validated,
                   forwarded_ports, module_names, validate_outcome,
                   devcontainer_config, apply_outcome,
                   hook_name, hook_files, generatorVars, cliVars>>

NextHooks == FindHookScripts \/ GenerateHookCommand

SpecHooks == InitHooks /\ [][NextHooks]_vars

---------------------------------------------------------------------------
(* Properties of find_hook_scripts and generate_hook_command *)

\* A candidate qualifies when it is a regular file whose owner may execute it.
Qualifies(path) ==
    /\ hook_files[path].kind = "file"
    /\ hook_files[path].mode % 128 >= 64

UserCandidate == <<"user", user_hook_path(HomeDir, hook_name)>>

ProjectCandidate == <<"project", project_hook_path(ProjectDir, hook_name)>>

\* C11: find_hook_scripts returns exactly the candidates that are regular
\* files with the owner-executable bit set, the user hook before the project
\* hook; a missing or non-executable candidate is left out and the call still
\* returns a list.
C11_HooksAreExecutableCandidatesInTierOrder ==
    pc = "hooks_found" =>
        hook_scripts =
            SelectSeq(<<UserCandidate, ProjectCandidate>>,
                      LAMBDA c : Qualifies(c[2]))

\* Both tiers qualify while other candidates are skipped: the hook of the
\* other event is a directory or lacks the owner bit.
C11_Witness ==
    /\ pc = "hooks_found"
    /\ hook_scripts = <<UserCandidate, ProjectCandidate>>
    /\ \E p \in CandidatePaths :
          /\ hook_files[p] = [kind |-> "file", mode |-> 428]
          /\ p \notin {UserCandidate[2], ProjectCandidate[2]}

\* The command the claim describes: inside a segment the echo and the line
\* that runs the hook are joined with " && ", like the segments themselves.
AndJoinedSegment(c) ==
    <<"echo \"Executing ", c[1], " ", hook_name, " hook...\"",
      " && ", "source ~/.bashrc", " && ">> \o c[2]

AndJoinedHookCommand ==
    LET found == SelectSeq(<<UserCandidate, ProjectCandidate>>,
                           LAMBDA c : Qualifies(c[2]))
    IN  IF found = <<>> THEN <<>>
        ELSE <<join_texts(" && ", [i \in 1..Len(found) |-> AndJoinedSegment(found[i])])>>

\* C12: generate_hook_command returns None when no hook is found; otherwise
\* the command is, per hook in discovery order, the echo of "Executing
\* {tier} {event} hook..." and `source ~/.bashrc && <hook path>`, where the
\* segments and the echo/exec pair of each segment are joined with " && ".
C12_HookCommandIsAndJoined ==
    pc = "hook_command" => hook_command = AndJoinedHookCommand

---------------------------------------------------------------------------
(* devcontainer.py: generate_docker_labels and generate_devcontainer_json *)

\* datetime.isoformat() of a naive datetime: the fraction is left out when
\* the microsecond field is zero.
isoformat(t) ==
    IF t.microsecond = "000000" THEN <<t.seconds>> ELSE <<t.seconds, ".", t.microsecond>>

\* The label that lists the modules comes first.
generate_docker_labels_mutant(branch_, repo, repo_path, editor_, modules, now) ==
    <<<<"--label=com.devenv.modules=">> \o join(",", modules),
      <<"--label=com.devenv.managed=true">>,
      <<"--label=com.devenv.repo=", repo>>,
      <<"--label=com.devenv.repo-path=", repo_path>>,
      <<"--label=com.devenv.branch=", branch_>>,
      <<"--label=com.devenv.editor=", editor_>>,
      <<"--label=com.devenv.created=">> \o isoformat(now) \o <<"Z">>,
      <<"--label=com.devenv.tainted=false">>>>

\* Each label is a text; `modules` is <<>> for None and for the empty list.
generate_docker_labels(branch_, repo, repo_path, editor_, modules, now) ==
    LET labels ==
            <<<<"--label=com.devenv.managed=true">>,
              <<"--label=com.devenv.repo=", repo>>,
              <<"--label=com.devenv.repo-path=", repo_path>>,
              <<"--label=com.devenv.branch=", branch_>>,
              <<"--label=com.devenv.editor=", editor_>>,
              <<"--label=com.devenv.created=">> \o isoformat(now) \o <<"Z">>,
              <<"--label=com.devenv.tainted=false">>>>
    IN  IF modules # <<>>
        THEN Append(labels, <<"--label=com.devenv.modules=">> \o join(",", modules))
        ELSE Append(labels, <<"--label=com.devenv.modules=">>)

MiseMount ==
    [source |-> "${localEnv:HOME}/.local/share/mise",
     target |-> "/home/vscode/.local/share/mise", type |-> "bind"]

dotfiles_mount(merged_config) ==
    [source |-> merged_config["dotfiles_dir"], target |-> "/tmp/devenv-dotfiles",
     type |-> "bind"]

\* The dotfiles mount is put before the mounts of the config.
base_mounts_mutant(merged_config) ==
    <<MiseMount>>
        \o (IF "dotfiles_dir" \in DOMAIN merged_config
            THEN <<dotfiles_mount(merged_config)>> ELSE <<>>)
        \o Get(merged_config, "mounts", <<>>)

\* Lines 119-140.
base_mounts(merged_config) ==
    LET with_config == <<MiseMount>> \o Get(merged_config, "mounts", <<>>)
    IN  IF "dotfiles_dir" \in DOMAIN merged_config
        THEN Append(with_config, dotfiles_mount(merged_config))
        ELSE with_config

\* Every plugin list of the config is attached, whatever the editor.
customizations_mutant(merged_config, editor_) ==
    IF "plugins" \in DOMAIN merged_config
    THEN [ide \in DOMAIN merged_config["plugins"] |->
             IF ide = "vscode"
             THEN [extensions |-> merged_config["plugins"][ide]]
             ELSE [plugins |-> merged_config["plugins"][ide]]]
    ELSE EmptyDict

\* Lines 142-152.
customizations(merged_config, editor_) ==
    IF "plugins" \in DOMAIN merged_config
    THEN IF editor_ = "vscode" /\ "vscode" \in DOMAIN merged_config["plugins"]
         THEN [vscode |-> [extensions |-> merged_config["plugins"]["vscode"]]]
         ELSE IF editor_ = "jetbrains" /\ "jetbrains" \in DOMAIN merged_config["plugins"]
         THEN [jetbrains |-> [plugins |-> merged_config["plugins"]["jetbrains"]]]
         ELSE EmptyDict
    ELSE EmptyDict

MiseBootstrap == "curl -fsSL https://mise.run | sh"

ActivateBash == "echo 'eval \"$(~/.local/bin/mise activate bash)\"' >> ~/.bashrc"

ActivateZsh == "echo 'eval \"$(~/.local/bin/mise activate zsh)\"' >> ~/.zshrc"

MiseInstall == "~/.local/bin/mise install"

CopyDotfiles == "cp -r /tmp/devenv-dotfiles/. ~/"

\* Lines 157-178: the list of command texts and its " && ".join.
post_create_commands(merged_config) ==
    <<<<MiseBootstrap>>, <<ActivateBash>>, <<ActivateZsh>>, <<MiseInstall>>>>
        \o (IF "dotfiles_dir" \in DOMAIN merged_config THEN <<<<CopyDotfiles>>>> ELSE <<>>)
        \o (IF "post_create_command" \in DOMAIN merged_config
            THEN <<merged_config["post_create_command"]>> ELSE <<>>)

\* The specification as built before the modules are applied (lines 98-186).
devcontainer_before_modules(merged_config, branch_, repo, repo_path, editor_, modules, now) ==
    LET forwarded == extract_ports_from_config(Field(merged_config, "ports"))
        d0 == [name |-> <<"devenv-", repo, "-", branch_, "-", editor_>>,
               image |-> merged_config["image"]]
        d1 == IF forwarded # <<>> THEN Put(d0, "forwardPorts", forwarded) ELSE d0
        d2 == IF "environment" \in DOMAIN merged_config
              THEN Put(d1, "remoteEnv", merged_config["environment"]) ELSE d1
        d3 == IF "features" \in DOMAIN merged_config
              THEN Put(d2, "features", merged_config["features"]) ELSE d2
        d4 == Put(d3, "mounts", base_mounts(merged_config))
        d5 == IF customizations(merged_config, editor_) # EmptyDict
              THEN Put(d4, "customizations", customizations(merged_config, editor_))
              ELSE d4
        d6 == Put(d5, "postCreateCommand",
                  join_texts(" && ", post_create_commands(merged_config)))
        d7 == IF "post_start_command" \in DOMAIN merged_config
              THEN Put(d6, "postStartCommand", merged_config["post_start_command"])
              ELSE d6
        labels == generate_docker_labels(branch_, repo, repo_path, editor_, modules, now)
    IN  Put(d7, "runArgs", labels)

\* The outcome of generate_devcontainer_json: the specification returned, or
\* the ValueError of apply_modules_to_devcontainer (lines 188-192).
generate_devcontainer_json(merged_config, branch_, repo, repo_path, editor_, modules, now) ==
    LET devcontainer ==
            devcontainer_before_modules(merged_config, branch_, repo, repo_path,
                                        editor_, modules, now)
        applied == apply_modules_to_devcontainer(devcontainer, modules)
    IN  IF applied.raised = "no"
        THEN [raised |-> "no", value |-> applied.current]
        ELSE [raised |-> "ValueError", unknown |-> applied.unknown,
              available |-> applied.available]

\* devcontainer["remoteEnv"] and devcontainer["features"] are the dicts of
\* merged_config itself (lines 113, 117), which the modules update in place.
merged_after_generate(merged_config, result) ==
    IF result.raised # "no" THEN merged_config
    ELSE [k \in DOMAIN merged_config |->
             IF k = "environment" THEN result.value["remoteEnv"]
             ELSE IF k = "features" THEN result.value["features"]
             ELSE merged_config[k]]

---------------------------------------------------------------------------
(* The generator on merged configurations, editors, module lists and hooks *)

Repo == "repo"

Branches == {"main", "feature-test"}

Clocks ==
    {[seconds |-> "2025-01-15T10:30:00", microsecond |-> us] : us \in {"000000", "123456"}}

DataMount == [source |-> "/data", target |-> "/data", type |-> "bind"]

CacheMount == [source |-> "/cache", target |-> "/var/cache", type |-> "volume"]

MountProfiles ==
    {EmptyDict,
     [mounts |-> <<DataMount>>],
     [mounts |-> <<CacheMount, DataMount>>,
      ports |-> <<Port3000, Port5432>>,
      environment |-> [NODE_ENV |-> "development"],
      features |-> [git |-> [version |-> "latest"]]]}

DotfilesProfiles == {EmptyDict, [dotfiles_dir |-> "/home/dev/dotfiles"]}

PluginProfiles ==
    {EmptyDict,
     [plugins |-> EmptyDict],
     [plugins |-> [vscode |-> <<"ms-python.python">>]],
     [plugins |-> [jetbrains |-> <<"esbenp.prettier-vscode">>]],
     [plugins |-> [vscode |-> <<"ms-python.python", "esbenp.prettier-vscode">>,
                   jetbrains |-> <<>>]]}

CommandProfiles ==
    {EmptyDict,
     [post_create_command |-> <<"npm install">>],
     [post_start_command |-> <<"npm run dev">>],
     [post_create_command |-> <<"npm install", " && ", "npm run build">>,
      post_start_command |-> <<"npm run dev">>]}

\* Merged configurations that passed validate_config.
MergedConfigs ==
    {Update(Update(Update(Update([name |-> ValidName, image |-> "node:20"], m), d), p), c) :
        m \in MountProfiles, d \in DotfilesProfiles, p \in PluginProfiles,
        c \in CommandProfiles}

GeneratorModuleLists ==
    {<<>>, <<"claude-code">>, <<"docker-in-docker">>,
     <<"claude-code", "docker-in-docker">>, <<"docker-in-docker", "claude-code">>,
     <<"claude-code", "bogus">>}

ExecutableFile == [kind |-> "file", mode |-> 493]

\* The hook files present beside the generator: none, all four, the user's
\* post_create hook with the project's post_start hook, and the reverse.
HookProfiles ==
    {[p \in CandidatePaths |-> Missing],
     [p \in CandidatePaths |-> ExecutableFile],
     [p \in CandidatePaths |->
         IF p \in {user_hook_path(HomeDir, "post_create"),
                   project_hook_path(ProjectDir, "post_start")}
         THEN ExecutableFile ELSE Missing],
     [p \in CandidatePaths |->
         IF p \in {user_hook_path(HomeDir, "post_start"),
                   project_hook_path(ProjectDir, "post_create")}
         THEN ExecutableFile ELSE Missing]}

InitGenerator ==
    /\ pc = "generator"
    /\ project_path = Idle
    /\ project_config = Idle
    /\ user_config = Idle
    /\ merged \in MergedConfigs
    /\ validated = Idle
    /\ forwarded_ports = Idle
    /\ module_names \in GeneratorModuleLists
    /\ validate_outcome = Idle
    /\ devcontainer_config = Idle
    /\ apply_outcome = Idle
    /\ hook_name = Idle
    /\ hook_files \in HookProfiles
    /\ hook_scripts = Idle
    /\ hook_command = Idle
    /\ branch \in Branches
    /\ editor \in Editors
    /\ clock \in Clocks
    /\ docker_labels = Idle
    /\ generated = Idle
    /\ CliIdle

GenerateDockerLabels ==
    /\ pc = "generator"
    /\ docker_labels' =
           generate_docker_labels(branch, Repo, ProjectDir, editor, module_names, clock)
    /\ pc' = "labels"
    /\ UNCHANGED <<project_path, project_config, user_config, merged, validated,
                   forwarded_ports, module_names, validate_outcome,
                   devcontainer_config, apply_outcome, hookVars,
                   branch, editor, clock, generated, cliVars>>

GenerateDevcontainerJson ==
    /\ pc \in {"generator", "labels"}
    /\ generated' =
           generate_devcontainer_json(merged, branch, Repo, ProjectDir, editor,
                                      module_names, clock)
    /\ merged' = merged_after_generate(merged, generated')
    /\ pc' = "generated"
    /\ UNCHANGED <<project_path, project_config, user_config, validated,
                   forwarded_ports, module_names, validate_outcome,
                   devcontainer_config, apply_outcome, hookVars,
                   branch, editor, clock, docker_labels, cliVars>>

NextGenerator == GenerateDockerLabels \/ GenerateDevcontainerJson

SpecGenerator == InitGenerator /\ [][NextGenerator]_vars

---------------------------------------------------------------------------
(* Properties of the generated specification *)

Returned == pc = "generated" /\ generated.raised = "no"

IsPrefix(p, s) == Len(p) <= Len(s) /\ SubSeq(s, 1, Len(p)) = p

\* The text holds, from piece i on, the echo that announces the hook of a tier.
EchoAt(cmd, i, tier, event) ==
    /\ i + 3 <= Len(cmd)
    /\ cmd[i] = "echo \"Executing "
    /\ cmd[i + 1] = tier
    /\ cmd[i + 3] = event

\* The text holds the command text `sub` from piece j on.
OccursAt(cmd, j, sub) ==
    /\ j + Len(sub) - 1 <= Len(cmd)
    /\ SubSeq(cmd, j, j + Len(sub) - 1) = sub

ToolchainSteps ==
    <<MiseBootstrap, " && ", ActivateBash, " && ", ActivateZsh, " && ", MiseInstall>>
        \o (IF "dotfiles_dir" \in DOMAIN merged THEN <<" && ", CopyDotfiles>> ELSE <<>>)

\* The hook announcements of an event stand in the text after piece `from`,
\* one per discovered hook in discovery order, and the configured command,
\* when there is one, stands after all of them.
HooksThenCommand(cmd, from, event, key) ==
    LET found == find_hook_scripts(event, ProjectDir, HomeDir, hook_files)
        echoes == {i \in 1..Len(cmd) : \E t \in {"user", "project"} : EchoAt(cmd, i, t, event)}
    IN  /\ \E at \in [1..Len(found) -> (from + 1)..Len(cmd)] :
              /\ \A k \in 1..Len(found) : EchoAt(cmd, at[k], found[k][1], event)
              /\ \A k \in 1..(Len(found) - 1) : at[k] < at[k + 1]
        /\ key \in DOMAIN merged =>
              \E j \in (from + 1)..Len(cmd) :
                  /\ OccursAt(cmd, j, merged[key])
                  /\ \A i \in echoes : i < j

\* C13: postCreateCommand is the toolchain bootstrap, the shell-activation
\* lines, the toolchain install step, the dotfiles copy step when
\* dotfiles_dir is set, then the post_create hook commands (user before
\* project), then the configured post_create_command.
C13_PostCreateRunsHooksBeforeCommand ==
    Returned =>
        LET cmd == generated.value["postCreateCommand"]
        IN  /\ IsPrefix(ToolchainSteps, cmd)
            /\ HooksThenCommand(cmd, Len(ToolchainSteps), "post_create",
                                "post_create_command")

\* C14: postStartCommand is the post_start hook commands followed by the
\* configured post_start_command; the field is absent exactly when no
\* post_start hook is discovered and no post_start_command is configured.
C14_PostStartRunsHooksThenCommand ==
    Returned =>
        LET found == find_hook_scripts("post_start", ProjectDir, HomeDir, hook_files)
        IN  /\ "postStartCommand" \notin DOMAIN generated.value
                  <=> (found = <<>> /\ "post_start_command" \notin DOMAIN merged)
            /\ "postStartCommand" \in DOMAIN generated.value =>
                  HooksThenCommand(generated.value["postStartCommand"], 0,
                                   "post_start", "post_start_command")

DotfilesTarget == "/tmp/devenv-dotfiles"

\* C15: the mounts of every returned specification start with the fixed
\* toolchain-cache bind mount, then hold the mounts the config declares in
\* their order, and then the dotfiles mount if and only if dotfiles_dir is set.
C15_MountsAreCacheThenConfigThenDotfiles ==
    Returned =>
        LET mounts == generated.value["mounts"]
            declared == IF "mounts" \in DOMAIN merged THEN merged["mounts"] ELSE <<>>
            n == Len(declared)
        IN  /\ Len(mounts) >= n + 1
            /\ mounts[1] = [source |-> "${localEnv:HOME}/.local/share/mise",
                            target |-> "/home/vscode/.local/share/mise",
                            type |-> "bind"]
            /\ \A i \in 1..n : mounts[i + 1] = declared[i]
            /\ "dotfiles_dir" \in DOMAIN merged
                  <=> (Len(mounts) >= n + 2 /\ mounts[n + 2].target = DotfilesTarget)
            /\ "dotfiles_dir" \in DOMAIN merged =>
                  /\ mounts[n + 2].source = merged["dotfiles_dir"]
                  /\ mounts[n + 2].type = "bind"

\* Modules with mounts were applied to a config with declared mounts and a
\* dotfiles directory.
C15_Witness ==
    /\ Returned
    /\ module_names = <<"docker-in-docker", "claude-code">>
    /\ "dotfiles_dir" \in DOMAIN merged
    /\ "mounts" \in DOMAIN merged
    /\ Len(merged["mounts"]) = 2
    /\ Len(generated.value["mounts"]) = 6

ModuleMounts ==
    UNION {Range(BUILTIN_MODULES[m]["mounts"]) :
              m \in {x \in Range(module_names) : x \in DOMAIN BUILTIN_MODULES}}

\* C16: after the fixed mount come the config mounts, then the module
\* mounts, then the dotfiles mount: every module mount precedes the
\* dotfiles mount.
C16_ModuleMountsPrecedeDotfiles ==
    Returned =>
        LET mounts == generated.value["mounts"]
        IN  \A i, j \in 1..Len(mounts) :
                (mounts[i] \in ModuleMounts /\ mounts[j].target = DotfilesTarget)
                    => i < j

CustomizationKey(ide) == IF ide = "vscode" THEN "extensions" ELSE "plugins"

CustomizationsOf(spec) ==
    IF "customizations" \in DOMAIN spec THEN spec["customizations"] ELSE EmptyDict

\* C17: a customization entry for editor kind E is present iff E is the
\* editor passed to the generator and the merged config has a plugin list
\* for E, and then it holds exactly that list; the plugin lists of the other
\* editor kind appear nowhere in the specification.
C17_CustomizationsForActiveEditorOnly ==
    Returned =>
        LET custom == CustomizationsOf(generated.value)
        IN  /\ DOMAIN custom \subseteq Editors
            /\ \A E \in Editors :
                  /\ E \in DOMAIN custom
                        <=> /\ E = editor
                            /\ "plugins" \in DOMAIN merged
                            /\ E \in DOMAIN merged["plugins"]
                  /\ E \in DOMAIN custom =>
                        /\ DOMAIN custom[E] = {CustomizationKey(E)}
                        /\ custom[E][CustomizationKey(E)] = merged["plugins"][E]
            /\ DOMAIN generated.value \subseteq
                  {"name", "image", "forwardPorts", "remoteEnv", "features", "mounts",
                   "customizations", "postCreateCommand", "postStartCommand", "runArgs"}

\* The config lists plugins for both editors and the jetbrains list, the
\* empty one, is the one attached.
C17_Witness ==
    /\ Returned
    /\ editor = "jetbrains"
    /\ "plugins" \in DOMAIN merged
    /\ DOMAIN merged["plugins"] = Editors
    /\ "customizations" \in DOMAIN generated.value
    /\ generated.value["customizations"] = [jetbrains |-> [plugins |-> <<>>]]

\* The module names with a comma between them.
CommaJoined(names) ==
    [i \in 1..(IF names = <<>> THEN 0 ELSE 2 * Len(names) - 1) |->
        IF i % 2 = 1 THEN names[(i + 1) \div 2] ELSE ","]

Timestamp ==
    IF clock.microsecond = "000000"
    THEN <<clock.seconds, "Z">>
    ELSE <<clock.seconds, ".", clock.microsecond, "Z">>

EightLabels ==
    [i \in 1..8 |->
        CASE i = 1 -> <<"--label=com.devenv.managed=true">>
          [] i = 2 -> <<"--label=com.devenv.repo=", Repo>>
          [] i = 3 -> <<"--label=com.devenv.repo-path=", ProjectDir>>
          [] i = 4 -> <<"--label=com.devenv.branch=", branch>>
          [] i = 5 -> <<"--label=com.devenv.editor=", editor>>
          [] i = 6 -> <<"--label=com.devenv.created=">> \o Timestamp
          [] i = 7 -> <<"--label=com.devenv.tainted=false">>
          [] i = 8 -> <<"--label=com.devenv.modules=">> \o CommaJoined(module_names)]

\* C18: the generated labels are exactly the eight --label arguments
\* managed=true, repo, repo-path, branch, editor, created=<UTC ISO-8601>Z,
\* tainted=false, modules, in that order, the modules value being the
\* requested names comma-joined in caller order or empty; and they are the
\* initial runArgs of the generated specification.
C18_EightLabelsInOrder ==
    /\ pc = "labels" => docker_labels = EightLabels
    /\ Returned => IsPrefix(EightLabels, generated.value["runArgs"])

\* Two modules were requested and the clock had a fraction of a second.
C18_Witness ==
    /\ Returned
    /\ docker_labels # Idle
    /\ module_names = <<"docker-in-docker", "claude-code">>
    /\ clock.microsecond = "123456"
    /\ generated.value["runArgs"][8] =
           <<"--label=com.devenv.modules=", "docker-in-docker", ",", "claude-code">>

---------------------------------------------------------------------------
(* cli.py and docker.py: the create, switch and rm commands *)

Repos == {"repo", "other"}

\* os.path.abspath('.') in a working directory whose basename is the repo.
RepoPath(repo) == IF repo = "repo" THEN ProjectDir ELSE "/work/other"

\* .devenv/config.yml: whether it exists, whether yaml.safe_load accepts it,
\* and the mapping it holds.
ValidConfigFile ==
    [exists |-> TRUE, parses |-> TRUE,
     data |-> [name |-> ValidName, image |-> "node:20",
               post_create_command |-> <<"npm install">>]]

ConfigFileStates ==
    {[exists |-> FALSE, parses |-> FALSE, data |-> EmptyDict],
     [exists |-> TRUE, parses |-> FALSE, data |-> EmptyDict],
     [exists |-> TRUE, parses |-> TRUE, data |-> [name |-> BadName, image |-> "node:20"]],
     ValidConfigFile}

\* Path(config_path).exists()
config_exists(file) == file.exists

\* load_and_merge_config on a project file and a user config: the merged
\* and validated configuration, or the exception of the loader or validator.
load_and_merge_config(file, user, path, order) ==
    IF file.exists /\ ~file.parses
    THEN [raised |-> "YAMLError"]
    ELSE validate_config(
             merge_configs(IF file.exists THEN file.data ELSE NoneVal, user, path, order))

\* Containers that are running only: client.containers.list(all=False).
find_container_by_branch_mutant(all, branch_, repo) ==
    {c \in BagToSet(all) : c.branch = branch_ /\ c.repo = repo /\ c.status = "running"}

\* The containers the label filter of lines 52-61 matches, in any state; the
\* caller takes the first of the list the daemon returns.
find_container_by_branch(all, branch_, repo) ==
    {c \in BagToSet(all) : c.branch = branch_ /\ c.repo = repo}

\* The temporary file is opened before the configuration is resolved.
create_devcontainer_from_config_mutant(config, repo, branch_, editor_, modules, now) ==
    IF config.raised # "no"
    THEN [raised |-> config.raised, written |-> TRUE]
    ELSE [raised |-> "no", written |-> TRUE,
          value |-> generate_devcontainer_json(config.value, branch_, repo,
                        RepoPath(repo), editor_, modules, now).value]

\* create_devcontainer_from_config and the entry of its context manager;
\* `config` is the outcome of load_and_merge_config (line 230).  The result
\* is the specification written to the temporary file, or the exception
\* raised before the file is opened.
create_devcontainer_from_config(config, repo, branch_, editor_, modules, now) ==
    IF config.raised # "no"
    THEN [raised |-> config.raised, written |-> FALSE]
    ELSE LET spec == generate_devcontainer_json(config.value, branch_, repo,
                                                RepoPath(repo), editor_, modules, now)
         IN  IF spec.raised # "no"
             THEN [raised |-> spec.raised, written |-> FALSE]
             ELSE [raised |-> "no", written |-> TRUE, value |-> spec.value]

\* The value of a --label argument of runArgs.
label_value(run_args, key) ==
    LET i == CHOOSE i \in 1..Len(run_args) : run_args[i][1] = key
    IN  run_args[i][2]

\* The devenv labels of the container `devcontainer up` creates with the
\* runArgs of a specification.
new_container(run_args) ==
    [repo |-> label_value(run_args, "--label=com.devenv.repo="),
     branch |-> label_value(run_args, "--label=com.devenv.branch="),
     editor |-> label_value(run_args, "--label=com.devenv.editor=")]

\* What a command did: the arguments it was given, its exit code, the error
\* it reported, whether it wrote a specification file and whether it started
\* `devcontainer up`.
Exit(command, args, code, error, written, started) ==
    [command |-> command, args |-> args, exit |-> code, error |-> error,
     spec_written |-> written, up_started |-> started]

Args(repo, branch_, modules) == [repo |-> repo, branch |-> branch_, modules |-> modules]

CliModuleLists == {<<"claude-code">>, <<"claude-code", "bogus">>}

\* What the machine answers to a command: Docker is down, the devcontainer
\* CLI is not installed, or both are there.
Machines == {"ok", "no_docker", "no_devcontainer_cli"}

\* `devcontainer up` ends with return code 0 and a running container, fails
\* before it creates one, or fails after it created one.
UpResults == {"up", "failed", "failed_after_create"}

\* The machine and what `devcontainer up` would do on it; without Docker or
\* without the devcontainer CLI it cannot succeed.
Worlds ==
    {w \in [machine : Machines, up : UpResults] : w.machine # "ok" => w.up = "failed"}

InitCli ==
    /\ pc = "cli"
    /\ project_path = Idle
    /\ project_config = Idle
    /\ user_config = NoneVal
    /\ merged = Idle
    /\ validated = Idle
    /\ forwarded_ports = Idle
    /\ module_names = Idle
    /\ validate_outcome = Idle
    /\ devcontainer_config = Idle
    /\ apply_outcome = Idle
    /\ HooksIdle
    /\ GeneratorIdle
    /\ config_file \in {f \in [Repos -> ConfigFileStates] : f["other"] = ValidConfigFile}
    /\ containers = EmptyBag
    /\ outcome = Exit("none", Args("repo", "main", <<>>), 0, "none", FALSE, FALSE)
    /\ trace = <<>>
    /\ procs = Idle
    /\ documents = Idle
    /\ catalog = Idle
    /\ module_returned = Idle

CliUnchanged ==
    UNCHANGED <<pc, project_path, project_config, user_config, merged, validated,
                forwarded_ports, module_names, validate_outcome,
                devcontainer_config, apply_outcome, hookVars, generatorVars,
                config_file, procs, documents, catalog, module_returned>>

\* devenv create, run in the working directory of `repo`.
Create(repo, branch_, editor_, modules, machine, up, now, order) ==
    LET args == Args(repo, branch_, modules)
        existing == find_container_by_branch(containers, branch_, repo)
    IN  /\ CliUnchanged
        /\ trace' = <<>>
        /\ IF machine = "no_docker"
           THEN /\ outcome' = Exit("create", args, 1, "docker", FALSE, FALSE)
                /\ UNCHANGED containers
           ELSE IF ~config_exists(config_file[repo])
           THEN /\ outcome' = Exit("create", args, 1, "no_config", FALSE, FALSE)
                /\ UNCHANGED containers
           ELSE IF modules # <<>> /\ validate_modules(modules).raised # "no"
           THEN /\ outcome' = Exit("create", args, 1, "unknown_module", FALSE, FALSE)
                /\ UNCHANGED containers
           ELSE IF existing # {}
           THEN /\ outcome' = Exit("create", args, 1, "exists", FALSE, FALSE)
                /\ UNCHANGED containers
           ELSE IF machine = "no_devcontainer_cli"
           THEN /\ outcome' = Exit("create", args, 1, "no_devcontainer_cli", FALSE, FALSE)
                /\ UNCHANGED containers
           ELSE \E config \in {load_and_merge_config(config_file[repo], user_config,
                                                     <<".">>, order)} :
                \E made \in {create_devcontainer_from_config(config, repo, branch_,
                                                             editor_, modules, now)} :
                \E created \in {IF made.raised = "no"
                                 THEN new_container(made.value["runArgs"])
                                 ELSE Idle} :
                    IF made.raised # "no"
                    THEN /\ outcome' =
                                Exit("create", args, 1, "config_error", made.written, FALSE)
                         /\ UNCHANGED containers
                    ELSE IF up = "up" /\ BagCardinality(containers) < MaxContainers
                    THEN /\ outcome' = Exit("create", args, 0, "none", TRUE, TRUE)
                         /\ containers' =
                                containers (+) SetToBag({Put(created, "status", "running")})
                    ELSE IF /\ up = "failed_after_create"
                            /\ BagCardinality(containers) < MaxContainers
                    THEN /\ outcome' = Exit("create", args, 1, "up_failed", TRUE, TRUE)
                         /\ containers' =
                                containers (+) SetToBag({Put(created, "status", "exited")})
                    ELSE /\ outcome' = Exit("create", args, 1, "up_failed", TRUE, TRUE)
                         /\ UNCHANGED containers

\* Lines 183-190 of switch for the container found: the call made, the
\* container afterwards and whether container.start() raised.
start_if_stopped_mutant(c, started) ==
    IF started
    THEN [calls |-> <<"start">>, left |-> [c EXCEPT !.status = "running"], raised |-> FALSE]
    ELSE [calls |-> <<"start">>, left |-> c, raised |-> TRUE]

start_if_stopped(c, started) ==
    IF c.status = "running"
    THEN [calls |-> <<>>, left |-> c, raised |-> FALSE]
    ELSE IF started
    THEN [calls |-> <<"start">>, left |-> [c EXCEPT !.status = "running"], raised |-> FALSE]
    ELSE [calls |-> <<"start">>, left |-> c, raised |-> TRUE]

\* devenv switch: starts the container of the branch when it is not running,
\* then reports how to connect.  `started` is whether container.start()
\* returns rather than raises.
Switch(repo, branch_, machine, started) ==
    LET args == Args(repo, branch_, <<>>)
    IN
    /\ CliUnchanged
    /\ IF machine = "no_docker"
       THEN /\ outcome' = Exit("switch", args, 1, "docker", FALSE, FALSE)
            /\ trace' = <<>>
            /\ UNCHANGED containers
       ELSE IF find_container_by_branch(containers, branch_, repo) = {}
       THEN /\ outcome' = Exit("switch", args, 1, "not_found", FALSE, FALSE)
            /\ trace' = <<>>
            /\ UNCHANGED containers
       ELSE \E c \in find_container_by_branch(containers, branch_, repo) :
            \E done \in {start_if_stopped(c, started)} :
                /\ outcome' = IF done.raised
                              THEN Exit("switch", args, 1, "start_failed", FALSE, FALSE)
                              ELSE Exit("switch", args, 0, "none", FALSE, FALSE)
                /\ trace' = IF done.raised THEN done.calls ELSE done.calls \o <<"report">>
                /\ containers' = (containers (-) SetToBag({c})) (+) SetToBag({done.left})

\* What the daemon does with the calls of rm: both succeed, container.stop()
\* raises, or container.remove() raises.
Daemons == {"ok", "stop_fails", "remove_fails"}

\* The try block of rm for the container found: the calls made, the
\* container afterwards (<<>> when removed) and whether a call raised.
stop_and_remove_mutant(c, daemon) ==
    IF daemon = "remove_fails"
    THEN [calls |-> <<"remove">>, left |-> <<c>>, raised |-> TRUE]
    ELSE [calls |-> <<"remove">>, left |-> <<>>, raised |-> FALSE]

stop_and_remove(c, daemon) ==
    IF c.status = "running"
    THEN IF daemon = "stop_fails"
         THEN [calls |-> <<"stop">>, left |-> <<c>>, raised |-> TRUE]
         ELSE IF daemon = "remove_fails"
         THEN [calls |-> <<"stop", "remove">>,
               left |-> <<[c EXCEPT !.status = "exited"]>>, raised |-> TRUE]
         ELSE [calls |-> <<"stop", "remove">>, left |-> <<>>, raised |-> FALSE]
    ELSE IF daemon = "remove_fails"
         THEN [calls |-> <<"remove">>, left |-> <<c>>, raised |-> TRUE]
         ELSE [calls |-> <<"remove">>, left |-> <<>>, raised |-> FALSE]

\* devenv rm: `force` is the --force flag, `confirmed` the answer to the
\* prompt when it is asked; the trace records the prompt by its answer.
Rm(repo, branch_, machine, force, confirmed, daemon) ==
    LET args == Args(repo, branch_, <<>>) @@ [force |-> force]
    IN
    /\ CliUnchanged
    /\ IF machine = "no_docker"
       THEN /\ outcome' = Exit("rm", args, 1, "docker", FALSE, FALSE)
            /\ trace' = <<>>
            /\ UNCHANGED containers
       ELSE IF find_container_by_branch(containers, branch_, repo) = {}
       THEN /\ outcome' = Exit("rm", args, 1, "not_found", FALSE, FALSE)
            /\ trace' = <<>>
            /\ UNCHANGED containers
       ELSE \E c \in find_container_by_branch(containers, branch_, repo) :
                IF ~force /\ ~confirmed
                THEN /\ outcome' = Exit("rm", args, 0, "cancelled", FALSE, FALSE)
                     /\ trace' = <<"declined">>
                     /\ UNCHANGED containers
                ELSE \E done \in {stop_and_remove(c, daemon)} :
                     /\ outcome' = IF done.raised
                                   THEN Exit("rm", args, 1, "remove_failed", FALSE, FALSE)
                                   ELSE Exit("rm", args, 0, "none", FALSE, FALSE)
                     /\ trace' = (IF force THEN <<>> ELSE <<"confirmed">>) \o done.calls
                     /\ containers' =
                            (containers (-) SetToBag({c})) (+) SetToBag(Range(done.left))

\* The instant and the set iteration order of the runs considered: neither
\* reaches the containers or the exit of a command.
CliClock == [seconds |-> "2025-01-15T10:30:00", microsecond |-> "123456"]

CliOrder == [e \in Editors |-> <<"ms-python.python", "esbenp.prettier-vscode">>]

NextCli ==
    \/ \E repo \in Repos, b \in Branches, e \in Editors, m \in CliModuleLists,
          w \in Worlds :
          Create(repo, b, e, m, w.machine, w.up, CliClock, CliOrder)
    \/ \E repo \in Repos, b \in Branches, w \in Worlds, started \in BOOLEAN :
          /\ w.machine # "no_devcontainer_cli"
          /\ w.up = "failed"
          /\ w.machine = "no_docker" => started
          /\ Switch(repo, b, w.machine, started)
    \/ \E repo \in Repos, b \in Branches, w \in Worlds, force \in BOOLEAN,
          confirmed \in BOOLEAN, daemon \in Daemons :
          /\ w.machine # "no_devcontainer_cli"
          /\ w.up = "failed"
          /\ w.machine = "no_docker" => force /\ confirmed /\ daemon = "ok"
          /\ force => confirmed
          /\ Rm(repo, b, w.machine, force, confirmed, daemon)

SpecCli == InitCli /\ [][NextCli]_vars

---------------------------------------------------------------------------
(* Properties of the create command *)

ModulesInvalid(modules) == \E i \in 1..Len(modules) : modules[i] \notin CatalogNames

\* The file is there and the loader or the validator rejects it.
ResolutionFails(file) ==
    /\ file.exists
    /\ \/ ~file.parses
       \/ file.data["name"] = BadName

\* C19: a create whose module validation or configuration resolution fails
\* exits non-zero before any mutation: no specification file was written,
\* `devcontainer up` was not started and no container was created.
C19_FailedCreateMutatesNothing ==
    [][(/\ outcome'.command = "create"
        /\ \/ ModulesInvalid(outcome'.args.modules)
           \/ ResolutionFails(config_file[outcome'.args.repo]))
          => /\ outcome'.exit # 0
             /\ ~outcome'.spec_written
             /\ ~outcome'.up_started
             /\ containers' = containers]_vars

\* A create failed on the configuration while the daemon held a container
\* of the other repository.
C19_Witness ==
    /\ outcome.command = "create"
    /\ outcome.error = "config_error"
    /\ outcome.args.modules = <<"claude-code">>
    /\ BagCardinality(containers) >= 1

AtMostOnePerPair ==
    \A repo \in Repos, b \in Branches :
        LET same == {c \in BagToSet(containers) : c.repo = repo /\ c.branch = b}
        IN  /\ Cardinality(same) <= 1
            /\ \A c \in same : CopiesIn(c, containers) = 1

\* C20: create for a (branch, repository) pair that already has a managed
\* container, running or stopped and whatever its editor, exits non-zero
\* without generating a specification or invoking the orchestration tool;
\* so after any sequence of create, switch and rm there is at most one
\* managed container per pair.
C20_OneContainerPerBranchAndRepo ==
    /\ []AtMostOnePerPair
    /\ [][(/\ outcome'.command = "create"
           /\ \E c \in BagToSet(containers) :
                  c.repo = outcome'.args.repo /\ c.branch = outcome'.args.branch)
             => /\ outcome'.exit # 0
                /\ ~outcome'.spec_written
                /\ ~outcome'.up_started
                /\ containers' = containers]_vars

\* A create was refused although every container held is stopped and was
\* made for the other editor.
C20_Witness ==
    /\ outcome.command = "create"
    /\ outcome.error = "exists"
    /\ ~ModulesInvalid(outcome.args.modules)
    /\ BagCardinality(containers) >= 2
    /\ \A c \in BagToSet(containers) : c.status = "exited" /\ c.editor = "jetbrains"

---------------------------------------------------------------------------
(* Repeated modules and the arguments the callers keep *)

Occurrences(s, x) == Cardinality({i \in 1..Len(s) : s[i] = x})

\* The step in which generate_devcontainer_json runs.
GenerateStep == pc \in {"generator", "labels"} /\ pc' = "generated"

\* C28: for a module list that validate_modules accepts,
\* apply_modules_to_devcontainer applies each module at most once: every
\* mount and every post-create command of a catalog module occurs in the
\* result at most once more than in the specification passed in.
C28_ValidatedListAppliesEachModuleOnce ==
    [][ApplyStep /\ validate_modules(module_names).raised = "no" =>
        \A n \in CatalogNames :
            /\ \A m \in Range(Get(BUILTIN_MODULES[n], "mounts", <<>>)) :
                   Occurrences(Get(apply_outcome'.current, "mounts", <<>>), m)
                     <= Occurrences(Get(devcontainer_config, "mounts", <<>>), m) + 1
            /\ \A c \in Range(Get(BUILTIN_MODULES[n], "post_create_commands", <<>>)) :
                   Occurrences(Get(apply_outcome'.current, "postCreateCommand", <<>>), c)
                     <= Occurrences(Get(devcontainer_config, "postCreateCommand", <<>>), c)
                          + 1]_vars

\* C29: merge_configs leaves the project config, its plugins mapping and
\* plugin lists included, and the user config as they were before the call.
C29_MergeLeavesInputsUnchanged ==
    [][MergeStep =>
        /\ project_config' = project_config
        /\ merge_configs(project_config', NoneVal, project_path, CHOOSE o \in SetOrders : TRUE)
             = merge_configs(project_config, NoneVal, project_path, CHOOSE o \in SetOrders : TRUE)]_vars

\* C30: generate_devcontainer_json with a valid module list leaves the merged
\* configuration, its environment, features and mounts included, as it was
\* before the call.
C30_GenerateLeavesMergedConfigUnchanged ==
    [][GenerateStep /\ generated'.raised = "no" =>
        \A k \in {"environment", "features", "mounts"} :
            /\ (k \in DOMAIN merged') = (k \in DOMAIN merged)
            /\ k \in DOMAIN merged => merged'[k] = merged[k]]_vars

---------------------------------------------------------------------------
(* rm and switch *)

\* The containers of the daemon without their status.
Identities(all) ==
    LET ids == {[repo |-> c.repo, branch |-> c.branch, editor |-> c.editor] :
                    c \in BagToSet(all)}
    IN  [i \in ids |->
            BagCardinality([c \in {d \in BagToSet(all) :
                                       d.repo = i.repo /\ d.branch = i.branch
                                       /\ d.editor = i.editor} |-> all[c]])]

\* The Docker calls of a trace, without the confirmation prompt.
DockerCalls(t) == SelectSeq(t, LAMBDA e : e \in {"stop", "remove", "start"})

\* C22: rm asks for confirmation unless --force is given and, when the user
\* declines, neither stops nor removes the container; otherwise it stops a
\* running container before it removes it, does not attempt the remove when
\* the stop fails, and removes a container that is not running without a
\* stop.  A container is gone only after a remove call, made with --force
\* or after the confirmation.
C22_RmStopsThenRemovesAfterConfirmation ==
    [][outcome'.command = "rm" /\ outcome'.error # "docker" =>
        LET found == find_container_by_branch(containers, outcome'.args.branch,
                                              outcome'.args.repo)
            calls == DockerCalls(trace')
        IN  /\ found = {} => trace' = <<>> /\ containers' = containers
            /\ outcome'.args.force =>
                   \A i \in DOMAIN trace' : trace'[i] \notin {"confirmed", "declined"}
            /\ \A c \in found :
                /\ ~outcome'.args.force =>
                       /\ trace' # <<>>
                       /\ Head(trace') \in {"confirmed", "declined"}
                       /\ trace' = <<Head(trace')>> \o calls
                /\ IF ~outcome'.args.force /\ Head(trace') = "declined"
                   THEN calls = <<>> /\ containers' = containers
                   ELSE IF c.status = "running"
                   THEN /\ calls \in {<<"stop">>, <<"stop", "remove">>}
                        /\ calls = <<"stop">> =>
                               outcome'.exit # 0 /\ containers' = containers
                   ELSE calls = <<"remove">>
                /\ BagCardinality(containers') < BagCardinality(containers) =>
                       /\ calls # <<>>
                       /\ calls[Len(calls)] = "remove"
                       /\ containers' = containers (-) SetToBag({c})]_vars

\* A running container was stopped and removed after the user confirmed,
\* while the container of another pair stayed.
C22_Witness ==
    /\ outcome.command = "rm"
    /\ ~outcome.args.force
    /\ trace = <<"confirmed", "stop", "remove">>
    /\ outcome.exit = 0
    /\ find_container_by_branch(containers, outcome.args.branch, outcome.args.repo) = {}
    /\ BagCardinality(containers) = 1

\* C23: switch, when the lookup by (branch, repository) finds a container,
\* starts it exactly when its status is not running and reports the
\* connection only after the start; it exits non-zero when no container
\* matches or the start fails, and the daemon holds the same containers
\* afterwards, at most with the found one running.
C23_SwitchStartsOnlyStoppedContainer ==
    [][outcome'.command = "switch" /\ outcome'.error # "docker" =>
        LET found == find_container_by_branch(containers, outcome'.args.branch,
                                              outcome'.args.repo)
        IN  /\ found = {} => outcome'.exit # 0 /\ trace' = <<>>
            /\ \A c \in found :
                /\ (\E i \in DOMAIN trace' : trace'[i] = "start") <=> c.status # "running"
                /\ trace' \in {<<"report">>, <<"start", "report">>, <<"start">>}
                /\ trace' = <<"start">> <=> outcome'.exit # 0
                /\ \A d \in BagToSet(containers') :
                       d \in BagToSet(containers) \/ d = [c EXCEPT !.status = "running"]
            /\ Identities(containers') = Identities(containers)]_vars

\* A stopped container was started and the connection reported, beside a
\* container of another pair that stayed stopped.
C23_Witness ==
    /\ outcome.command = "switch"
    /\ trace = <<"start", "report">>
    /\ outcome.exit = 0
    /\ \E c \in BagToSet(containers) :
           /\ c.repo = outcome.args.repo /\ c.branch = outcome.args.branch
           /\ c.status = "running"
    /\ \E c \in BagToSet(containers) : c.status = "exited"

---------------------------------------------------------------------------
(* devenv init *)

\* --port as a sequence of zero (not given) or one strings; the string may
\* be empty.
PortOptions == {<<>>, <<<<>>>>, <<Port3000>>}

\* port_list = [port] if port else None
port_list_of(port) == IF port # <<>> /\ Len(port[1]) > 0 THEN <<port[1]>> ELSE <<>>

\* Lines 32-35 reach the try block whatever the user answers.
init_proceeds_mutant(exists, force, confirmed) == TRUE

\* Lines 32-35: init reaches the try block unless the file exists, --force
\* is absent and the confirmation is declined.
init_proceeds(exists, force, confirmed) == ~(exists /\ ~force) \/ confirmed

\* What the file system does with write_config_file: it writes the file,
\* refuses (mkdir or open raises), or fails after open has truncated it.
WriteResults == {"ok", "refused", "partial"}

\* yaml.dump of a mapping of strings and string lists, which yaml.safe_load
\* reads back as the same mapping.
write_config_file(config, file, result) ==
    IF result = "ok" THEN [exists |-> TRUE, parses |-> TRUE, data |-> config]
    ELSE IF result = "partial" THEN [exists |-> TRUE, parses |-> FALSE, data |-> EmptyDict]
    ELSE file

InitArgs(force, port) == [force |-> force, port |-> port]

InitInit ==
    /\ pc = "init"
    /\ project_path \in ProjectPaths
    /\ project_config = Idle
    /\ user_config = Idle
    /\ merged = Idle
    /\ validated = Idle
    /\ forwarded_ports = Idle
    /\ module_names = Idle
    /\ validate_outcome = Idle
    /\ devcontainer_config = Idle
    /\ apply_outcome = Idle
    /\ HooksIdle
    /\ GeneratorIdle
    /\ config_file \in ConfigFileStates
    /\ containers = Idle
    /\ outcome = Exit("none", InitArgs(FALSE, <<>>), 0, "none", FALSE, FALSE)
    /\ trace = <<>>
    /\ procs = Idle
    /\ documents = Idle
    /\ catalog = Idle
    /\ module_returned = Idle

\* devenv init in a working directory named `project_path`.  `confirmed` is
\* the answer to the prompt when it is asked.
InitCommand(force, port, confirmed, result) ==
    LET args == InitArgs(force, port)
        asked == config_exists(config_file) /\ ~force
        prompt == IF ~asked THEN <<>>
                  ELSE IF confirmed THEN <<"confirmed">> ELSE <<"declined">>
    IN  /\ pc = "init"
        /\ IF ~init_proceeds(config_exists(config_file), force, confirmed)
           THEN /\ outcome' = Exit("init", args, 0, "cancelled", FALSE, FALSE)
                /\ trace' = prompt
                /\ UNCHANGED config_file
           ELSE /\ config_file' =
                       write_config_file(
                           generate_default_config(project_path, port_list_of(port)),
                           config_file, result)
                /\ trace' = prompt \o <<"write">>
                /\ outcome' = IF result = "ok"
                              THEN Exit("init", args, 0, "none", TRUE, FALSE)
                              ELSE Exit("init", args, 1, "write_failed", FALSE, FALSE)
        /\ UNCHANGED <<pc, project_path, project_config, user_config, merged, validated,
                       forwarded_ports, module_names, validate_outcome,
                       devcontainer_config, apply_outcome, hookVars, generatorVars,
                       containers, procs, documents, catalog, module_returned>>

NextInit ==
    \E force \in BOOLEAN, port \in PortOptions, confirmed \in BOOLEAN,
       result \in WriteResults :
        InitCommand(force, port, confirmed, result)

SpecInit == InitInit /\ [][NextInit]_vars

\* The config init writes in a directory named `name` for the --port given.
DefaultConfig(name, port) ==
    IF port \in {<<>>, <<<<>>>>}
    THEN [name |-> name, image |-> BaseImage]
    ELSE [name |-> name, image |-> BaseImage, ports |-> port]

\* C24: when the config file exists, --force is absent and the confirmation
\* is declined, the file is unchanged after init; when the file is absent,
\* --force is given or the user confirms, and the file system takes the
\* write, the file holds a new config: the directory name, the fixed base
\* image, and the port only if --port was given.  The prompt is asked only
\* for an existing file without --force.
C24_InitOverwritesOnlyWithForceOrConfirmation ==
    [][outcome'.command = "init" =>
        LET force == outcome'.args.force
            asked == config_exists(config_file) /\ ~force
            answer == IF trace' # <<>> /\ Head(trace') \in {"confirmed", "declined"}
                      THEN Head(trace') ELSE "none"
        IN  /\ asked <=> answer # "none"
            /\ answer = "declined" =>
                   /\ config_file' = config_file
                   /\ trace' = <<"declined">>
            /\ answer # "declined" /\ outcome'.exit = 0 =>
                   /\ config_file' = [exists |-> TRUE, parses |-> TRUE,
                                      data |-> DefaultConfig(project_path, outcome'.args.port)]
                   /\ "ports" \in DOMAIN config_file'.data => outcome'.args.port # <<>>
            /\ config_file' # config_file => ~config_exists(config_file) \/ force
                                              \/ answer = "confirmed"]_vars

\* The user declined to overwrite a config that differs from the default
\* one and the file is as it was.
C24_Witness ==
    /\ outcome.command = "init"
    /\ ~outcome.args.force
    /\ outcome.args.port = <<Port3000>>
    /\ trace = <<"declined">>
    /\ config_file = ValidConfigFile

---------------------------------------------------------------------------
(* Two runs of the resolve-and-generate pipeline on the same inputs *)

PipelinePluginDicts ==
    {PluginDict(vs, js) : vs \in Optional(PluginLists),
                          js \in Optional({<<"ms-python.python">>})}

PipelineProjects ==
    {NoneVal}
    \cup {Put(p, "plugins", d) :
            p \in {FullProject, [name |-> BadName, image |-> "node:20"]},
            d \in PipelinePluginDicts}

PipelineUsers == {NoneVal} \cup {[plugins |-> d] : d \in PipelinePluginDicts}

\* merge_configs, validate_config and generate_devcontainer_json in one
\* process whose sets iterate in `order`, with the arguments of the
\* generator in `generator`: the document, or the exception.
resolve_and_generate(project, user, path, generator, order) ==
    LET config == validate_config(merge_configs(project, user, path, order))
    IN  IF config.raised # "no" THEN config
        ELSE generate_devcontainer_json(config.value, generator.branch, generator.repo,
                                        generator.repo_path, generator.editor,
                                        generator.modules, generator.now)

InitPipeline ==
    /\ pc = "pipeline"
    /\ project_path = <<"a", "7">>
    /\ project_config \in PipelineProjects
    /\ user_config \in PipelineUsers
    /\ merged = Idle
    /\ validated = Idle
    /\ forwarded_ports = Idle
    /\ module_names \in {<<>>, <<"claude-code">>}
    /\ validate_outcome = Idle
    /\ devcontainer_config = Idle
    /\ apply_outcome = Idle
    /\ HooksIdle
    /\ branch = "main"
    /\ editor \in Editors
    /\ clock = CliClock
    /\ docker_labels = Idle
    /\ generated = Idle
    /\ config_file = Idle
    /\ containers = Idle
    /\ outcome = Idle
    /\ trace = Idle
    /\ procs = Idle
    /\ documents = <<>>
    /\ catalog = Idle
    /\ module_returned = Idle

\* One run of the pipeline, in a process of its own that loads the same
\* project and user config files and is handed the same arguments and the
\* same instant.
ResolveAndGenerate(order) ==
    /\ pc \in {"pipeline", "ran_once"}
    /\ \E document \in {resolve_and_generate(
                              project_config, user_config, project_path,
                              [branch |-> branch, repo |-> Repo, repo_path |-> ProjectDir,
                               editor |-> editor, modules |-> module_names, now |-> clock],
                              order)} :
           documents' = Append(documents, document)
    /\ pc' = IF pc = "pipeline" THEN "ran_once" ELSE "ran_twice"
    /\ UNCHANGED <<project_path, project_config, user_config, merged, validated,
                   forwarded_ports, module_names, validate_outcome,
                   devcontainer_config, apply_outcome, hookVars, generatorVars,
                   config_file, containers, outcome, trace, procs, catalog,
                   module_returned>>

NextPipeline == \E order \in SetOrders : ResolveAndGenerate(order)

SpecPipeline == InitPipeline /\ [][NextPipeline]_vars

\* C25: two runs of the pipeline on identical inputs and a fixed timestamp
\* produce identical documents, list orders included.
C25_PipelineIsDeterministic ==
    pc = "ran_twice" => documents[1] = documents[2]

---------------------------------------------------------------------------
(* The module catalog as an object that calls could write to *)

MaxCalls == 3

\* A dict a caller holds: its value, the catalog entry it was copied from
\* ("none" for a dict the caller built) and the keys whose values are still
\* the entry's own nested objects, as dict.copy() is shallow.
Held(value, entry, shared) == [value |-> value, entry |-> entry, shared |-> shared]

\* The module key that feeds each field of the specification.
ModuleKey ==
    [runArgs |-> "run_args", mounts |-> "mounts", remoteEnv |-> "environment",
     features |-> "features", postCreateCommand |-> "post_create_commands"]

Feeds(module_config) == {f \in DOMAIN ModuleKey : ModuleKey[f] \in DOMAIN module_config}

\* The mounts list is extended in place as well: current_mounts.extend(...).
in_place_fields_mutant(module_config) ==
    Feeds(module_config) \cap {"remoteEnv", "features", "mounts"}

\* Lines 151-161: the fields whose current object is changed in place by
\* update(); lines 141-149 and 163-171 assign newly built objects.
in_place_fields(module_config) == Feeds(module_config) \cap {"remoteEnv", "features"}

\* get_module on the catalog object: BUILTIN_MODULES[name].copy().
get_module_copy(cat, name) ==
    IF name \notin DOMAIN cat
    THEN [raised |-> "ValueError", name |-> name]
    ELSE [raised |-> "no", name |-> name,
          held |-> Held(cat[name], name, DOMAIN cat[name] \ {"description"})]

\* _merge_module_config with the objects it writes: the specification
\* returned and the catalog afterwards.
merge_on_heap(cat, held, name) ==
    LET module_config == get_module_copy(cat, name).held.value
        config == _merge_module_config(held.value, module_config)
        written == in_place_fields(module_config) \cap DOMAIN held.value
        hit == written \cap held.shared
    IN  [catalog |-> IF hit = {} THEN cat
                     ELSE [cat EXCEPT ![held.entry] =
                              [k \in DOMAIN @ |-> IF k \in hit THEN config[k] ELSE @[k]]],
         held |-> Held(config, held.entry,
                       held.shared \ (Feeds(module_config) \ written))]

RECURSIVE loop_on_heap(_, _, _)
loop_on_heap(cat, held, names) ==
    IF names = <<>> THEN [catalog |-> cat, held |-> held]
    ELSE LET step == merge_on_heap(cat, held, Head(names))
         IN  loop_on_heap(step.catalog, step.held, Tail(names))

\* apply_modules_to_devcontainer with the objects it writes.
apply_on_heap(cat, held, names) ==
    IF names = <<>> \/ validate_modules(names).raised # "no"
    THEN [catalog |-> cat, held |-> held]
    ELSE loop_on_heap(cat, held, names)

CatalogModuleLists ==
    {<<>>, <<"claude-code">>, <<"docker-in-docker">>,
     <<"docker-in-docker", "claude-code">>, <<"claude-code", "bogus">>}

CatalogMerged ==
    [name |-> ValidName, image |-> "node:20",
     environment |-> [NODE_ENV |-> "development"]]

InitCatalog ==
    /\ pc = "catalog"
    /\ project_path = Idle
    /\ project_config = Idle
    /\ user_config = Idle
    /\ merged = CatalogMerged
    /\ validated = Idle
    /\ forwarded_ports = Idle
    /\ module_names = <<>>
    /\ validate_outcome = Idle
    /\ devcontainer_config \in {Held(b, "none", {}) : b \in BaseSpecs}
    /\ apply_outcome = Idle
    /\ HooksIdle
    /\ branch = "main"
    /\ editor = "vscode"
    /\ clock = CliClock
    /\ docker_labels = Idle
    /\ generated = Idle
    /\ config_file = Idle
    /\ containers = Idle
    /\ outcome = Idle
    /\ trace = <<>>
    /\ procs = Idle
    /\ documents = Idle
    /\ catalog = BUILTIN_MODULES
    /\ module_returned = [raised |-> "none", name |-> ""]

CatalogUnchanged ==
    UNCHANGED <<pc, project_path, project_config, user_config, validated,
                forwarded_ports, hookVars, branch, editor, clock, docker_labels,
                config_file, containers, outcome, procs, documents>>

Called(call) ==
    /\ pc = "catalog"
    /\ Len(trace) < MaxCalls
    /\ trace' = Append(trace, call)

GetModule(name) ==
    /\ Called("get_module")
    /\ module_returned' = get_module_copy(catalog, name)
    /\ CatalogUnchanged
    /\ UNCHANGED <<catalog, merged, module_names, validate_outcome,
                   devcontainer_config, apply_outcome, generated>>

\* BUILTIN_MODULES.copy(): a new dict whose values are the entries themselves.
GetAvailableModules ==
    /\ Called("get_available_modules")
    /\ module_returned' =
           [raised |-> "no", name |-> "", held |-> Held(catalog, "all", DOMAIN catalog)]
    /\ CatalogUnchanged
    /\ UNCHANGED <<catalog, merged, module_names, validate_outcome,
                   devcontainer_config, apply_outcome, generated>>

ValidateModulesCall(names) ==
    /\ Called("validate_modules")
    /\ module_names' = names
    /\ validate_outcome' = validate_modules(names)
    /\ CatalogUnchanged
    /\ UNCHANGED <<catalog, merged, module_returned, devcontainer_config,
                   apply_outcome, generated>>

\* apply_modules_to_devcontainer on the specification the caller holds or,
\* with `returned`, on the dict the last get_module call returned; the
\* caller goes on with the specification returned.
ApplyModulesCall(names, returned) ==
    /\ Called("apply_modules_to_devcontainer")
    /\ returned => module_returned.raised = "no" /\ module_returned.name # ""
    /\ module_names' = names
    /\ \E held \in {IF returned THEN module_returned.held ELSE devcontainer_config} :
       \E done \in {apply_on_heap(catalog, held, names)} :
           /\ apply_outcome' = apply_modules_to_devcontainer(held.value, names)
           /\ devcontainer_config' = done.held
           /\ catalog' = done.catalog
    /\ CatalogUnchanged
    /\ UNCHANGED <<merged, module_returned, validate_outcome, generated>>

\* generate_devcontainer_json: the specification is built from the merged
\* config, whose environment and features dicts it shares, and the modules
\* are applied to it.
GenerateCall(names) ==
    /\ Called("generate_devcontainer_json")
    /\ module_names' = names
    /\ \E base \in {devcontainer_before_modules(merged, branch, Repo, ProjectDir,
                                                editor, names, clock)} :
       \E done \in {apply_on_heap(catalog, Held(base, "none", {}), names)} :
           /\ generated' = generate_devcontainer_json(merged, branch, Repo, ProjectDir,
                                                      editor, names, clock)
           /\ merged' = merged_after_generate(merged, generated')
           /\ catalog' = done.catalog
    /\ CatalogUnchanged
    /\ UNCHANGED <<module_returned, validate_outcome, devcontainer_config, apply_outcome>>

NextCatalog ==
    \/ \E name \in CatalogNames \cup {"bogus"} : GetModule(name)
    \/ GetAvailableModules
    \/ \E names \in CatalogModuleLists : ValidateModulesCall(names)
    \/ \E names \in CatalogModuleLists, returned \in BOOLEAN :
           ApplyModulesCall(names, returned)
    \/ \E names \in CatalogModuleLists : GenerateCall(names)

SpecCatalog == InitCatalog /\ [][NextCatalog]_vars

\* C26: after any sequence of get_module, get_available_modules,
\* validate_modules, apply_modules_to_devcontainer and
\* generate_devcontainer_json calls every catalog entry, nested values
\* included, equals its initial definition, and what get_module and
\* get_available_modules return equals the initial definition too, so two
\* get_module calls for one name return equal values.
C26_CatalogIsNeverMutated ==
    /\ catalog = BUILTIN_MODULES
    /\ module_returned.raised = "no" =>
           module_returned.held.value =
               IF module_returned.name = "" THEN BUILTIN_MODULES
               ELSE BUILTIN_MODULES[module_returned.name]

\* docker-in-docker and claude-code were applied to the dict get_module
\* returned for docker-in-docker, so update() ran on the features dict of
\* the catalog entry itself, and get_module was called again.
C26_Witness ==
    /\ pc = "catalog"
    /\ trace = <<"get_module", "apply_modules_to_devcontainer", "get_module">>
    /\ module_names = <<"docker-in-docker", "claude-code">>
    /\ devcontainer_config.entry = "docker-in-docker"
    /\ "features" \in devcontainer_config.shared
    /\ "remoteEnv" \in DOMAIN devcontainer_config.value
    /\ module_returned.raised = "no"
    /\ module_returned.name = "docker-in-docker"

---------------------------------------------------------------------------
(* create, step by step, in processes that run side by side *)

Procs == {"p", "q"}

\* How control leaves the with block of create: the block ends, exit(1)
\* raises SystemExit, a call raises an Exception, or the user interrupts.
Leaves == {"return", "SystemExit", "Exception", "KeyboardInterrupt"}

\* The temporary directory is removed only when an Exception passes through.
temp_file_left_mutant(how) == how \in {"return", "SystemExit", "KeyboardInterrupt"}

\* temp_devcontainer_json: whether the file is still there once the with
\* block has been left by `how`.  The generator is resumed or thrown into
\* for every way out, and TemporaryDirectory.__exit__ removes the directory.
temp_file_left(how) == FALSE

\* The container is created only when the pair has none: an atomic
\* check-and-create.
after_up_mutant(all, created, status) ==
    IF find_container_by_branch(all, created.branch, created.repo) # {}
    THEN all
    ELSE all (+) SetToBag({Put(created, "status", status)})

\* The daemon's containers once `devcontainer up` has created one.
after_up(all, created, status) == all (+) SetToBag({Put(created, "status", status)})

\* A create process: its arguments, where it is, whether its specification
\* file exists, whether its `devcontainer up` subprocess runs, how it left
\* the with block and its exit code (-1 while it runs).
Proc(repo, branch_, editor_) ==
    [repo |-> repo, branch |-> branch_, editor |-> editor_, at |-> "start",
     file |-> FALSE, up |-> FALSE, tool_rc |-> -1, left |-> "none", exit |-> -1]

StoppedMain == [repo |-> "repo", branch |-> "main", editor |-> "jetbrains", status |-> "exited"]

InitRuns ==
    /\ pc = "create"
    /\ project_path = Idle
    /\ project_config = Idle
    /\ user_config = Idle
    /\ merged = Idle
    /\ validated = Idle
    /\ forwarded_ports = Idle
    /\ module_names = Idle
    /\ validate_outcome = Idle
    /\ devcontainer_config = Idle
    /\ apply_outcome = Idle
    /\ HooksIdle
    /\ GeneratorIdle
    /\ config_file = Idle
    /\ containers \in {EmptyBag, SetToBag({StoppedMain})}
    /\ outcome = Idle
    /\ trace = Idle
    /\ procs \in {f \in [Procs -> {Proc("repo", b, e) : b \in Branches, e \in Editors}] :
                     f["p"] = Proc("repo", "feature-test", "vscode")}
    /\ documents = Idle
    /\ catalog = Idle
    /\ module_returned = Idle

RunsUnchanged ==
    UNCHANGED <<pc, project_path, project_config, user_config, merged, validated,
                forwarded_ports, module_names, validate_outcome,
                devcontainer_config, apply_outcome, hookVars, generatorVars,
                config_file, outcome, trace, documents, catalog, module_returned>>

Exited(proc, code) == [proc EXCEPT !.at = "exited", !.exit = code]

\* Lines 83-90: the lookup of a container of the pair, after the config file
\* and the module list were found in order.
CheckExisting(p) ==
    /\ procs[p].at = "start"
    /\ procs' = [procs EXCEPT ![p] =
                    IF find_container_by_branch(containers, procs[p].branch,
                                                procs[p].repo) # {}
                    THEN Exited(@, 1)
                    ELSE [@ EXCEPT !.at = "checked"]]
    /\ UNCHANGED containers
    /\ RunsUnchanged

\* Lines 93-102: the devcontainer CLI is there and the with block is entered;
\* `resolved` is whether load, merge, validation and generation returned.
EnterWith(p, resolved) ==
    /\ procs[p].at = "checked"
    /\ procs' = [procs EXCEPT ![p] =
                    IF resolved
                    THEN [@ EXCEPT !.at = "in_with", !.file = TRUE]
                    ELSE Exited([@ EXCEPT !.left = "Exception"], 1)]
    /\ UNCHANGED containers
    /\ RunsUnchanged

\* Line 117: subprocess.run starts `devcontainer up`, or raises at once.
StartUp(p, started) ==
    /\ procs[p].at = "in_with"
    /\ procs' = [procs EXCEPT ![p] =
                    IF started
                    THEN [@ EXCEPT !.at = "up", !.up = TRUE]
                    ELSE [@ EXCEPT !.at = "leaving", !.left = "Exception"]]
    /\ UNCHANGED containers
    /\ RunsUnchanged

\* `devcontainer up` ends; lines 119-131 end the block or call exit(1).
UpEnds(p, result) ==
    /\ procs[p].at = "up"
    /\ \E created \in {new_container(
                          generate_docker_labels(procs[p].branch, procs[p].repo,
                                                 RepoPath(procs[p].repo), procs[p].editor,
                                                 <<>>, CliClock))} :
           containers' = IF result = "up" THEN after_up(containers, created, "running")
                         ELSE IF result = "failed_after_create"
                         THEN after_up(containers, created, "exited")
                         ELSE containers
    /\ procs' = [procs EXCEPT ![p] =
                    [@ EXCEPT !.at = "leaving", !.up = FALSE,
                              !.tool_rc = IF result = "up" THEN 0 ELSE 1,
                              !.left = IF result = "up" THEN "return" ELSE "SystemExit"]]
    /\ RunsUnchanged

\* The user interrupts the process.  Before the with block nothing is to be
\* released; during subprocess.run the child is killed, having created its
\* container or not (`result`), and the KeyboardInterrupt is raised again.
Interrupt(p, result) ==
    /\ procs[p].at \in {"start", "checked", "in_with", "up"}
    /\ procs[p].at # "up" => result = "failed"
    /\ result # "up"
    /\ \E created \in {new_container(
                          generate_docker_labels(procs[p].branch, procs[p].repo,
                                                 RepoPath(procs[p].repo), procs[p].editor,
                                                 <<>>, CliClock))} :
           containers' = IF result = "failed_after_create"
                         THEN after_up(containers, created, "exited")
                         ELSE containers
    /\ procs' = [procs EXCEPT ![p] =
                    IF @.at \in {"start", "checked"}
                    THEN Exited([@ EXCEPT !.left = "KeyboardInterrupt"], 1)
                    ELSE [@ EXCEPT !.at = "leaving", !.up = FALSE,
                                   !.left = "KeyboardInterrupt"]]
    /\ RunsUnchanged

\* The with block is left: the context manager releases the file, then the
\* handlers of lines 133-138 or the end of the command set the exit code.
LeaveWith(p) ==
    /\ procs[p].at = "leaving"
    /\ procs' = [procs EXCEPT ![p] =
                    Exited([@ EXCEPT !.file = temp_file_left(procs[p].left)],
                           IF procs[p].left = "return" THEN 0 ELSE 1)]
    /\ UNCHANGED containers
    /\ RunsUnchanged

NextRuns ==
    \E p \in Procs :
        \/ CheckExisting(p)
        \/ \E resolved \in BOOLEAN : EnterWith(p, resolved)
        \/ \E started \in BOOLEAN : StartUp(p, started)
        \/ \E result \in UpResults : UpEnds(p, result)
        \/ \E result \in UpResults : Interrupt(p, result)
        \/ LeaveWith(p)

SpecRuns == InitRuns /\ [][NextRuns]_vars

OfPair(p) == find_container_by_branch(containers, procs[p].branch, procs[p].repo)

HeldOfPair(p) ==
    BagCardinality([c \in OfPair(p) |-> containers[c]])

\* C27: the existence check and the invocation of the tool are separate
\* steps and nothing guards the pair in between: every create whose tool
\* succeeded has added a container of its own, so two creates for one pair
\* that both passed the check leave two containers.
C27_ConcurrentCreatesAreNotGuarded ==
    \A p \in Procs :
        HeldOfPair(p) >= Cardinality({q \in Procs : /\ procs[q].branch = procs[p].branch
                                                   /\ procs[q].repo = procs[p].repo
                                                   /\ procs[q].tool_rc = 0})

\* Both creates are for one pair, both passed the check, both ran the tool
\* with success and the pair has two containers.
C27_Witness ==
    /\ procs["p"].branch = procs["q"].branch
    /\ procs["p"].repo = procs["q"].repo
    /\ \A p \in Procs : procs[p].at = "exited" /\ procs[p].exit = 0
    /\ HeldOfPair("p") = 2

====
